---- MODULE Spec2Model ----
(***************************************************************************)
(* Grouped reductions over block-partitioned arrays (dask_groupby).        *)
(*                                                                         *)
(* The module models src/dask_groupby/core.py: factorize_, chunk_reduce,   *)
(* chunk_argreduce, reindex_, _npg_combine, _finalize_results, groupby_agg *)
(* and groupby_reduce, for one-dimensional value and label arrays.         *)
(* Arrays are sequences of integers; np.nan and None are the tokens NaN    *)
(* and None.  Indices into arrays are 0-based as in numpy wherever they    *)
(* are data (factorize codes, argmax results); TLA+ sequences are indexed  *)
(* from 1.                                                                 *)
(***************************************************************************)
EXTENDS Integers, Sequences, FiniteSets, TLC

\* np.nan: the missing sentinel, in labels and in values.
NaN == 9999
\* Python None: no fill_value, no expected_groups.
None == 9998
\* dtypes.INF and dtypes.NINF after _get_fill_value: beyond every value.
PosInf == 5000
NegInf == 0 - 5000

\* Longest value/label array of the enumerated inputs.
MaxLen == 3

(***************************************************************************)
(* Sequence helpers (numpy primitives).                                    *)
(***************************************************************************)
Range(s) == {s[i] : i \in DOMAIN s}

Front(s) == SubSeq(s, 1, Len(s) - 1)

Last(s) == s[Len(s)]

RECURSIVE SumSeq(_)
SumSeq(s) == IF s = <<>> THEN 0 ELSE s[1] + SumSeq(Tail(s))

RECURSIVE Concat(_)
\* np.concatenate of a sequence of sequences
Concat(ss) == IF ss = <<>> THEN <<>> ELSE ss[1] \o Concat(Tail(ss))

SetMax(S) == CHOOSE x \in S : \A y \in S : y <= x

SetMin(S) == CHOOSE x \in S : \A y \in S : x <= y

RECURSIVE SortedSeq(_)
\* np.unique / sorted(): the ascending duplicate-free sequence of a set
SortedSeq(S) == IF S = {} THEN <<>> ELSE <<SetMin(S)>> \o SortedSeq(S \ {SetMin(S)})

\* position (1-based) of the first occurrence of x in s, 0 when absent
IndexOf(s, x) == IF x \in Range(s) THEN SetMin({i \in DOMAIN s : s[i] = x}) ELSE 0

\* np.asarray: the same sequence, held as an explicit tuple
asarray(s) == s \o <<>>

\* the subsequence of s at the positions (1-based) listed in pos
Take(s, pos) == asarray([k \in 1..Len(pos) |-> s[pos[k]]])

(***************************************************************************)
(* The aggregation engine, numpy_groupies.aggregate_numpy.aggregate, as    *)
(* chunk_reduce calls it: one named op over the values of each bucket.     *)
(* Means and variances are exact: a mean is scaled by 60 and a variance by *)
(* 3600, which every count up to 6 divides.                                *)
(***************************************************************************)
HasNaN(xs) == NaN \in Range(xs)

NonNaN(xs) == SelectSeq(xs, LAMBDA x : x # NaN)

Squares(xs) == [i \in DOMAIN xs |-> xs[i] * xs[i]]

MeanOf(s, c) == IF s = NaN \/ c = 0 THEN NaN ELSE (60 * s) \div c

VarOf(sq, s, c) ==
    IF sq = NaN \/ s = NaN \/ c = 0 THEN NaN ELSE (3600 * (sq * c - s * s)) \div (c * c)

\* One op over the values xs of one bucket; pos are their 0-based positions
\* in the block (argmin/argmax return the first position of the extreme).
npg_reduce(func, xs, pos) ==
    CASE func = "sum"    -> IF HasNaN(xs) THEN NaN ELSE SumSeq(xs)
      [] func = "nansum" -> SumSeq(NonNaN(xs))
      [] func = "count"  -> Len(NonNaN(xs))
      [] func = "sumsq"  -> IF HasNaN(xs) THEN NaN ELSE SumSeq(Squares(xs))
      [] func = "max"    -> IF HasNaN(xs) THEN NaN ELSE SetMax(Range(xs))
      [] func = "min"    -> IF HasNaN(xs) THEN NaN ELSE SetMin(Range(xs))
      [] func = "any"    -> IF \E i \in DOMAIN xs : xs[i] # 0 THEN 1 ELSE 0
      [] func = "all"    -> IF \A i \in DOMAIN xs : xs[i] # 0 THEN 1 ELSE 0
      [] func = "argmax" -> pos[IndexOf(xs, SetMax(Range(xs)))]
      [] func = "argmin" -> pos[IndexOf(xs, SetMin(Range(xs)))]
      [] func = "first"  -> xs[1]
      [] func = "last"   -> xs[Len(xs)]
      [] func = "mean"   -> MeanOf(IF HasNaN(xs) THEN NaN ELSE SumSeq(xs), Len(xs))
      [] func = "var"    -> VarOf(IF HasNaN(xs) THEN NaN ELSE SumSeq(Squares(xs)),
                                  IF HasNaN(xs) THEN NaN ELSE SumSeq(xs), Len(xs))

\* aggregate(group_idx, array, func=, size=None, fill_value=): one entry per
\* bucket 0..max(group_idx); a bucket without elements holds fill_value.
aggregate(group_idx, array, func, fill_value) ==
    LET size == SetMax(Range(group_idx)) + 1
        at(g) == SortedSeq({i \in DOMAIN group_idx : group_idx[i] = g})
    IN  asarray([b \in 1..size |->
            LET members == at(b - 1)
            IN  IF members = <<>> THEN fill_value
                ELSE npg_reduce(func, Take(array, members),
                                [k \in 1..Len(members) |-> members[k] - 1])])

(***************************************************************************)
(* The built-in Aggregation descriptors (aggregations.py): chunk ops,      *)
(* combine ops, per-op fill values and finalize.                           *)
(***************************************************************************)
ReduceFuncs == {"sum", "nansum", "count", "mean", "var", "max", "min", "any", "all"}

ArgFuncs == {"argmax", "argmin"}

Funcs == ReduceFuncs \cup ArgFuncs

reduction_type(func) == IF func \in ArgFuncs THEN "argreduce" ELSE "reduce"

agg_chunk(func) ==
    CASE func = "mean"   -> <<"sum", "count">>
      [] func = "var"    -> <<"sumsq", "sum", "count">>
      [] func = "argmax" -> <<"max", "argmax">>
      [] func = "argmin" -> <<"min", "argmin">>
      [] OTHER           -> <<func>>

agg_combine(func) ==
    CASE func = "mean"   -> <<"sum", "sum">>
      [] func = "var"    -> <<"sum", "sum", "sum">>
      [] func = "argmax" -> <<"max", "argmax">>
      [] func = "argmin" -> <<"min", "argmin">>
      [] func \in {"sum", "nansum", "count"} -> <<"sum">>
      [] OTHER           -> <<func>>

\* the names of the engine's ops
Ops == {"sum", "nansum", "count", "sumsq", "max", "min", "any", "all",
        "argmax", "argmin", "mean", "var", "first", "last"}

\* agg.fill_value, the mapping from op to fill, after _get_fill_value
\* replaced the dtype sentinels
agg_fill_value ==
    [op \in Ops |->
        CASE op = "max"                  -> NegInf
          [] op = "min"                  -> PosInf
          [] op \in {"argmax", "argmin"} -> 0 - 1
          [] op = "all"                  -> 1
          [] op \in {"first", "last"}     -> NaN
          [] OTHER                       -> 0]

\* agg.finalize(*intermediates), entrywise over the groups
agg_finalize(func, inter) ==
    CASE func = "mean" -> [g \in DOMAIN inter[1] |-> MeanOf(inter[1][g], inter[2][g])]
      [] func = "var"  ->
            [g \in DOMAIN inter[1] |-> VarOf(inter[1][g], inter[2][g], inter[3][g])]
      [] func \in ArgFuncs -> inter[2]
      [] OTHER -> inter[1]

(***************************************************************************)
(* core.py: factorize_, reindex_, chunk_reduce, chunk_argreduce.           *)
(* A partial result is [groups, intermediates, err]; err marks a raised    *)
(* exception, which fails every task that depends on it.                   *)
(***************************************************************************)
NoGroups == <<None>>

Raised == [groups |-> <<>>, intermediates |-> <<>>, err |-> TRUE]

\* pd.factorize(by)[1]: the distinct non-missing labels by first appearance
pd_uniques(by) ==
    Take(by, SortedSeq({i \in DOMAIN by :
                           by[i] # NaN /\ \A j \in 1..(i - 1) : by[j] # by[i]}))

\* pd.factorize(by)[0]: 0-based codes, -1 for a missing label
pd_codes(by) ==
    LET u == pd_uniques(by)
    IN  asarray([i \in DOMAIN by |-> IF by[i] = NaN THEN 0 - 1 ELSE IndexOf(u, by[i]) - 1])

\* factorize_ when a missing label is given the first code instead of a
\* bucket of its own
factorize_missing_first(by) ==
    LET idx == pd_codes(by)
    IN  [group_idx |-> asarray([i \in DOMAIN idx |-> IF idx[i] = 0 - 1 THEN 0 ELSE idx[i]]),
         groups |-> pd_uniques(by)]

\* factorize_((by,), axis) for one 1-D label array without bins: the codes
\* with every -1 replaced by idx.max() + 1, and the found groups.
\* (idx.max() raises on an empty array: callers test by = <<>> first.)
factorize_(by) ==
    LET idx == pd_codes(by)
        sentinel == SetMax(Range(idx)) + 1
    IN  [group_idx |-> asarray([i \in DOMAIN idx |->
                                   IF idx[i] = 0 - 1 THEN sentinel ELSE idx[i]]),
         groups |-> pd_uniques(by)]

\* np.digitize(groupvar, expect) for increasing edges and right=False: the
\* number of edges <= the value (0 below the first edge, len(expect) from the
\* last edge on and for NaN)
digitize(groupvar, expect) ==
    asarray([i \in DOMAIN groupvar |->
                Cardinality({k \in DOMAIN expect : expect[k] <= groupvar[i]})])

\* One turn of factorize_'s loop (core.py 99-116): the codes of one key and
\* what it appends to found_groups (nothing when it has expected groups and
\* no bins).
factorize_key(groupvar, expect, tobin) ==
    IF tobin
    THEN IF expect = NoGroups THEN [idx |-> <<>>, found |-> <<>>, err |-> TRUE]
         ELSE [idx |-> digitize(groupvar, expect), found |-> <<expect>>, err |-> FALSE]
    ELSE [idx |-> factorize_(groupvar).group_idx,
          found |-> IF expect = NoGroups THEN <<pd_uniques(groupvar)>> ELSE <<>>,
          err |-> FALSE]

\* np.ravel_multi_index(factorized, grp_shape) raises ValueError when the
\* number of coordinate arrays is not len(grp_shape) or a coordinate is
\* outside 0..grp_shape[k]-1
ravel_raises(factorized, grp_shape) ==
    \/ Len(factorized) # Len(grp_shape)
    \/ \E k \in DOMAIN factorized : \E i \in DOMAIN factorized[k] :
          factorized[k][i] < 0 \/ factorized[k][i] >= grp_shape[k]

\* np.ravel_multi_index(factorized, grp_shape): the mixed-radix flat index
ravel_multi_index(factorized, grp_shape) ==
    asarray([i \in DOMAIN factorized[1] |->
                LET flat[k \in 0..Len(factorized)] ==
                        IF k = 0 THEN 0
                        ELSE flat[k - 1] * grp_shape[k] + factorized[k][i]
                IN  flat[Len(factorized)]])

FactorizeRaised == [group_idx |-> <<>>, found_groups |-> <<>>, grp_shape |-> <<>>, err |-> TRUE]

\* core.py 120-123 of factorize_: the codes of the keys become one group_idx
factorize_ravel(factorized, found_groups, grp_shape) ==
    IF Len(factorized) > 1 /\ ravel_raises(factorized, grp_shape) THEN FactorizeRaised
    ELSE [group_idx |-> IF Len(factorized) > 1
                        THEN ravel_multi_index(factorized, grp_shape)
                        ELSE factorized[1],
          found_groups |-> found_groups, grp_shape |-> grp_shape, err |-> FALSE]

\* core.py 118 of factorize_: grp_shape = tuple(len(grp) for grp in found_groups)
factorize_shape(factorized, found_groups) ==
    factorize_ravel(factorized, found_groups,
                    [k \in DOMAIN found_groups |-> Len(found_groups[k])])

\* factorize_(by, axis, expected_groups, bins) for a tuple of 1-D label
\* arrays reduced along all their dimensions (core.py 90-132)
factorize_keys(by, expected_groups, bins) ==
    IF \E k \in DOMAIN by : factorize_key(by[k], expected_groups[k], bins[k]).err
    THEN FactorizeRaised
    ELSE factorize_shape(
             [k \in DOMAIN by |-> factorize_key(by[k], expected_groups[k], bins[k]).idx],
             Concat([k \in DOMAIN by |->
                        factorize_key(by[k], expected_groups[k], bins[k]).found]))

\* idx of reindex_: the 0-based position in from_ of every label of to, or -1
reindex_idx(from_, to) == asarray([i \in DOMAIN to |-> IndexOf(from_, to[i]) - 1])

\* reindex_ raises ValueError("Filling is required. fill_value cannot be None.")
reindex_raises(array, from_, to, fill_value) ==
    /\ Len(array) # 0
    /\ fill_value = None
    /\ \E i \in DOMAIN to : reindex_idx(from_, to)[i] = 0 - 1

\* reindex_(array, from_, to, fill_value) along the group axis
reindex_(array, from_, to, fill_value) ==
    IF Len(array) = 0
    THEN asarray([i \in DOMAIN to |-> IF fill_value = None THEN NaN ELSE fill_value])
    ELSE LET idx == reindex_idx(from_, to)
         IN  asarray([i \in DOMAIN to |->
                         IF idx[i] = 0 - 1 THEN fill_value ELSE array[idx[i] + 1]])

\* reindex_ on a 2-D array, the sequence of its rows, with array.shape
\* given beside it (an array without rows does not tell its columns); a call
\* returns [array, shape, err], err naming the exception raised ("" when
\* none).
\* array.shape[axis] for axis 0 and -1
extent(shp, axis) == IF axis = 0 THEN shp[1] ELSE shp[2]

\* np.full(shp, fill_value)
full(shp, fill_value) == [r \in 1..shp[1] |-> [c \in 1..shp[2] |-> fill_value]]

\* the fill is forgotten: an absent label keeps what idx = -1 selected, the
\* last slice
take_last(array, idx, fill_value, axis) ==
    IF axis = 0
    THEN [i \in DOMAIN idx |-> IF idx[i] = 0 - 1 THEN array[Len(array)] ELSE array[idx[i] + 1]]
    ELSE [r \in DOMAIN array |->
             [i \in DOMAIN idx |->
                 IF idx[i] = 0 - 1 THEN array[r][Len(array[r])] ELSE array[r][idx[i] + 1]]]

\* reindexed = array[tuple(indexer)]; reindexed[loc] = fill_value
\* (core.py 57-68)
take_and_fill(array, idx, fill_value, axis) ==
    IF axis = 0
    THEN [i \in DOMAIN idx |->
             IF idx[i] = 0 - 1 THEN [c \in DOMAIN array[1] |-> fill_value]
             ELSE array[idx[i] + 1]]
    ELSE [r \in DOMAIN array |->
             [i \in DOMAIN idx |->
                 IF idx[i] = 0 - 1 THEN fill_value ELSE array[r][idx[i] + 1]]]

\* reindex_(array, from_, to, fill_value, axis) for a 2-D array
\* The empty case (core.py 49-52) fills array.shape[:-1] + (len(to),), with
\* NaN for fill_value None in a float array.
reindex_axis(array, shp, from_, to, fill_value, axis) ==
    IF axis \notin {0, 0 - 1} THEN [array |-> <<>>, shape |-> <<>>, err |-> "AssertionError"]
    ELSE IF extent(shp, axis) = 0
    THEN [array |-> full(<<shp[1], Len(to)>>, IF fill_value = None THEN NaN ELSE fill_value),
          shape |-> <<shp[1], Len(to)>>,
          err |-> ""]
    ELSE IF fill_value = None /\ \E i \in DOMAIN to : reindex_idx(from_, to)[i] = 0 - 1
    THEN [array |-> <<>>, shape |-> <<>>, err |-> "ValueError"]
    ELSE [array |-> take_and_fill(array, reindex_idx(from_, to), fill_value, axis),
          shape |-> IF axis = 0 THEN <<Len(to), shp[2]>> ELSE <<shp[1], Len(to)>>,
          err |-> ""]

\* the groups are left in the order of their first appearance
no_sort(groups) == [i \in DOMAIN groups |-> i]

\* np.argsort(groups) for distinct groups, as 1-based positions
argsort(groups) ==
    LET sorted == SortedSeq(Range(groups))
    IN  asarray([k \in DOMAIN groups |-> IndexOf(groups, sorted[k])])

\* empty of chunk_reduce (core.py 245-246) for a non-empty block: every
\* group index is -1.  Only then is the engine not called (core.py 260-265).
all_masked(group_idx) == \A i \in DOMAIN group_idx : group_idx[i] = 0 - 1

\* whether chunk_reduce calls npg.aggregate_numpy.aggregate for the labels by
\* of a block
engine_invoked(by) == ~all_masked(factorize_(by).group_idx)

\* The body of chunk_reduce once by is factorized into group_idx and groups
\* (core.py 217-286): one aggregate per op, the sentinel bucket dropped, the
\* result reindexed to expected_groups or sorted by group.
reduce_factorized(array, group_idx, groups, func, expected_groups, fill_value) ==
    LET mask == [i \in DOMAIN group_idx |-> group_idx[i] # 0 - 1]
        empty == all_masked(group_idx)
        results == [k \in DOMAIN func |->
                       LET result == aggregate(group_idx, array, func[k], fill_value[func[k]])
                       IN  IF \E i \in DOMAIN mask : ~mask[i] THEN Front(result)
                           ELSE result]
    IN  IF empty
        THEN [groups |-> IF expected_groups # NoGroups THEN expected_groups ELSE <<NaN>>,
              intermediates |->
                  [k \in DOMAIN func |->
                      [g \in 1..(IF expected_groups # NoGroups THEN Len(expected_groups)
                                 ELSE 1) |-> fill_value[func[k]]]],
              err |-> FALSE]
        ELSE IF expected_groups # NoGroups
        THEN IF \E k \in DOMAIN func :
                    reindex_raises(results[k], groups, expected_groups, fill_value[func[k]])
             THEN Raised
             ELSE [groups |-> expected_groups,
                   intermediates |->
                       [k \in DOMAIN func |->
                           reindex_(results[k], groups, expected_groups,
                                    fill_value[func[k]])],
                   err |-> FALSE]
        ELSE [groups |-> Take(groups, argsort(groups)),
              intermediates |-> [k \in DOMAIN func |-> Take(results[k], argsort(groups))],
              err |-> FALSE]

\* chunk_reduce(array, by, func, expected_groups, axis, fill_value) for 1-D
\* by; func is the sequence of ops and fill_value[op] the fill of each.
\* factorize_ raises on an empty by (idx.max() of an empty array).
chunk_reduce(array, by, func, expected_groups, fill_value) ==
    IF by = <<>> THEN Raised
    ELSE reduce_factorized(array, factorize_(by).group_idx, factorize_(by).groups, func,
                           expected_groups, fill_value)

\* The lookup of chunk_argreduce (core.py 152-162): the positions the second
\* op returned are looked up in idx.
argreduce_lookup(results, idx, func) ==
    IF results.err \/ Len(func) < 2 THEN Raised
    ELSE [results EXCEPT !.intermediates[2] =
             [g \in DOMAIN results.intermediates[2] |->
                 idx[results.intermediates[2][g] + 1]]]

\* chunk_argreduce((array, idx), by, func, expected_groups=None, ...): the
\* positions the second op returns are looked up in idx.
chunk_argreduce(array, idx, by, func, fill_value) ==
    argreduce_lookup(chunk_reduce(array, by, func, NoGroups, fill_value), idx, func)

(***************************************************************************)
(* core.py: _npg_combine, _finalize_results, _npg_aggregate.               *)
(***************************************************************************)
\* The descriptor groupby_reduce hands on: on the partitioned path it appends
\* a count when the user gave a fill_value (core.py 736-740).
Aggregation(func, chunk, combine, finalize) ==
    [name |-> func, reduction_type |-> reduction_type(func),
     chunk |-> chunk, combine |-> combine, finalize |-> finalize]

\* unique_groups of _npg_combine (core.py 381-383): np.unique over the
\* groups of every sibling
combined_groups(x_chunk) ==
    SortedSeq(UNION {Range(x_chunk[i].groups) : i \in DOMAIN x_chunk})

\* reindex_intermediates(x) (core.py 386-393): intermediate k is reindexed to
\* unique_groups with the fill value of chunk op k
reindex_intermediates(x, unique_groups, agg) ==
    [k \in DOMAIN x.intermediates |->
        reindex_(x.intermediates[k], x.groups, unique_groups,
                 agg_fill_value[agg.chunk[k]])]

\* _conc2("intermediates", k) over the reindexed siblings, for every k
conc2_intermediates(x_chunk, unique_groups, agg) ==
    [k \in DOMAIN agg.chunk |->
        Concat([i \in DOMAIN x_chunk |->
                   reindex_intermediates(x_chunk[i], unique_groups, agg)[k]])]

\* _conc2("groups") over the reindexed siblings
conc2_groups(x_chunk, unique_groups) == Concat([i \in DOMAIN x_chunk |-> unique_groups])

\* the argreduce branch (core.py 418-441): values and indexes are reduced
\* together with combine[:-1], the counts are summed and appended
combine_argreduce(conc, groups, agg) ==
    IF Len(agg.chunk) < 3 THEN Raised
    ELSE LET results == chunk_argreduce(conc[1], conc[2], groups, Front(agg.combine),
                                        agg_fill_value)
             counts == chunk_reduce(conc[3], groups, <<"sum">>, NoGroups,
                                    [op \in {"sum"} |-> 0])
         IN  IF results.err \/ counts.err THEN Raised
             ELSE [results EXCEPT !.intermediates = Append(@, counts.intermediates[1])]

\* the reduce branch (core.py 442-462): every intermediate is reduced on its
\* own; an intermediate that is empty when combined stays empty
combine_reduce(conc, groups, agg) ==
    LET _results == [k \in DOMAIN agg.combine |->
                        chunk_reduce(conc[k], groups, <<agg.combine[k]>>, NoGroups,
                                     agg_fill_value)]
    IN  [groups |-> IF conc[Len(agg.combine)] = <<>> THEN <<>>
                    ELSE _results[Len(agg.combine)].groups,
         intermediates |->
             [k \in DOMAIN agg.combine |->
                 IF conc[k] = <<>> THEN <<>> ELSE _results[k].intermediates[1]],
         err |-> FALSE]

\* _npg_combine(x_chunk, agg, axis, keepdims, group_ndim): the siblings of
\* x_chunk, in block order, reindexed to the union of their groups,
\* concatenated and reduced with the combine ops.
_npg_combine(x_chunk, agg) ==
    IF \E i \in DOMAIN x_chunk : x_chunk[i].err THEN Raised
    ELSE IF agg.reduction_type = "argreduce"
    THEN combine_argreduce(conc2_intermediates(x_chunk, combined_groups(x_chunk), agg),
                           conc2_groups(x_chunk, combined_groups(x_chunk)), agg)
    ELSE combine_reduce(conc2_intermediates(x_chunk, combined_groups(x_chunk), agg),
                        conc2_groups(x_chunk, combined_groups(x_chunk)), agg)

\* A final result: the groups, the reduced values, or a raised exception.
RaisedResult == [groups |-> <<>>, result |-> <<>>, err |-> TRUE]

\* _finalize_results when no group is overwritten: the count is split off
\* and the statistic is returned as finalized
finalize_unmasked(results, agg, expected_groups, fill_value, mask_counts) ==
    IF results.err THEN RaisedResult
    ELSE [groups |-> results.groups,
          result |-> IF agg.finalize = "identity" THEN results.intermediates[1]
                     ELSE agg_finalize(agg.name,
                                       IF fill_value # None /\ mask_counts
                                       THEN Front(results.intermediates)
                                       ELSE results.intermediates),
          err |-> FALSE]

\* _finalize_results(results, agg, axis, expected_groups, fill_value, mask_counts)
_finalize_results(results, agg, expected_groups, fill_value, mask_counts) ==
    IF results.err THEN RaisedResult
    ELSE
    LET split == fill_value # None /\ mask_counts
        counts == Last(results.intermediates)
        inter == IF split THEN Front(results.intermediates) ELSE results.intermediates
        finalized == IF agg.finalize = "identity" THEN inter[1]
                     ELSE agg_finalize(agg.name, inter)
        masked == IF split
                  THEN [g \in DOMAIN finalized |->
                           IF counts[g] > 0 THEN finalized[g] ELSE fill_value]
                  ELSE finalized
    IN  IF expected_groups = NoGroups
        THEN [groups |-> results.groups, result |-> masked, err |-> FALSE]
        ELSE IF reindex_raises(masked, results.groups, expected_groups, fill_value)
        THEN RaisedResult
        ELSE [groups |-> results.groups,
              result |-> reindex_(masked, results.groups, expected_groups, fill_value),
              err |-> FALSE]

\* _npg_aggregate: the last step of the tree, combine then finalize
_npg_aggregate(x_chunk, agg, expected_groups, fill_value) ==
    _finalize_results(_npg_combine(x_chunk, agg), agg, expected_groups, fill_value, TRUE)

(***************************************************************************)
(* groupby_reduce: the unpartitioned (numpy) path, and the pieces of the   *)
(* partitioned (dask) path, groupby_agg.                                   *)
(***************************************************************************)
\* np.unique(by) without its NaN (core.py 667-670)
unique_labels(by) == SortedSeq(Range(by) \ {NaN})

\* groupby_reduce on numpy arrays (core.py 707-730)
groupby_reduce_numpy(array, by, func, expected_groups, fill_value) ==
    LET expected == IF expected_groups = NoGroups THEN unique_labels(by)
                    ELSE expected_groups
        fv == IF fill_value = None THEN agg_fill_value[func] ELSE fill_value
        results == chunk_reduce(array, by, <<func>>, NoGroups, [op \in {func} |-> fv])
        reduction == Aggregation(func, agg_chunk(func), agg_combine(func), "identity")
    IN  _finalize_results(results, reduction, expected, fill_value, FALSE)

\* the descriptor of the partitioned path (core.py 690-705, 736-740)
dask_reduction(func, fill_value) ==
    IF fill_value # None
    THEN Aggregation(func, Append(agg_chunk(func), "count"),
                     Append(agg_combine(func), "sum"), "own")
    ELSE Aggregation(func, agg_chunk(func), agg_combine(func), "own")

\* np.arange(n)
arange(n) == [i \in 1..n |-> i - 1]

\* np.prod(group_shape)
RECURSIVE prod(_)
prod(s) == IF s = <<>> THEN 1 ELSE s[1] * prod(Tail(s))

TableRaised == [shape |-> <<>>, result |-> <<>>, err |-> TRUE]

\* wrapper of xarray_reduce for more than one by (xarray.py 192-204): the
\* result of groupby_reduce over the flat index is reindexed to
\* np.arange(np.prod(group_shape)) and reshaped to group_shape (kept flat
\* here, in row-major order)
wrapper(res, group_shape, fill_value) ==
    IF res.err \/ reindex_raises(res.result, res.groups, arange(prod(group_shape)),
                                 fill_value)
    THEN TableRaised
    ELSE [shape |-> group_shape,
          result |-> reindex_(res.result, res.groups, arange(prod(group_shape)),
                              fill_value),
          err |-> FALSE]

\* xarray_reduce with more than one by, after factorize_ returned f
\* (xarray.py 180-207)
xarray_reduce_factorized(array, f, func, fill_value) ==
    IF f.err THEN TableRaised
    ELSE wrapper(groupby_reduce_numpy(array, f.group_idx, func, NoGroups, fill_value),
                 f.grp_shape, fill_value)

\* Block sizes <-> block boundaries (cumulative sums)
RECURSIVE Bounds(_)
Bounds(chunks) ==
    IF chunks = <<>> THEN {} ELSE Bounds(Front(chunks)) \cup {SumSeq(chunks)}

FromBounds(B) ==
    LET b == SortedSeq(B)
    IN  [k \in DOMAIN b |-> IF k = 1 THEN b[1] ELSE b[k] - b[k - 1]]

\* every sequence of positive block sizes that sums to n
Chunkings(n) == {FromBounds(C \cup {n}) : C \in SUBSET (1..(n - 1))}

\* dask.array.unify_chunks(array, inds, by, inds): the common refinement
unify_chunks(array_chunks, by_chunks) == FromBounds(Bounds(array_chunks) \cup Bounds(by_chunks))

\* the elements of s in block b of the chunking
Block(s, chunks, b) ==
    SubSeq(s, SumSeq(SubSeq(chunks, 1, b - 1)) + 1, SumSeq(SubSeq(chunks, 1, b)))

\* the blockwise layer of groupby_agg (core.py 494-514): the chunk reduction
\* of block b; arg reductions see the block's indices along the axis
\* (agg.preprocess).
chunk_block(array, by, chunks, b, agg) ==
    IF agg.reduction_type = "argreduce"
    THEN chunk_argreduce(Block(array, chunks, b),
                         Block([i \in DOMAIN array |-> i - 1], chunks, b),
                         Block(by, chunks, b), agg.chunk, agg_fill_value)
    ELSE chunk_reduce(Block(array, chunks, b), Block(by, chunks, b), agg.chunk,
                      NoGroups, agg_fill_value)

(***************************************************************************)
(* State.  The same call of groupby_reduce is made twice: on the           *)
(* unpartitioned arrays, and on block-partitioned ones.  The partitioned   *)
(* call is a run of the task graph groupby_agg builds: the blockwise       *)
(* layer, any number of combine steps over adjacent partial results (the   *)
(* tree of _tree_reduce, whose shape the scheduler's split_every decides)  *)
(* and the final aggregate.                                                *)
(***************************************************************************)
VARIABLES
    array,            \* the values
    by,               \* the labels
    func,             \* the reduction's name
    expected_groups,  \* the fixed output set, or NoGroups
    fill_value,       \* the user's fill_value, or None
    pc,               \* "input", "numpy", "unified", "tree", "done"
    chunks,           \* the unified block sizes
    pool,             \* the partial results not yet combined, in block order
    result,           \* what the partitioned call returned
    np_result,        \* what the unpartitioned call returned
    merge,            \* find_group_cohorts' merge argument
    cohorts,          \* what find_group_cohorts returned
    newchunks,        \* what _get_optimal_chunks_for_groups returned
    strategies,       \* the result of every method run so far
    args,             \* the arguments of a call of one function on its own
    out               \* what that call returned

vars == <<array, by, func, expected_groups, fill_value, pc, chunks, pool, result, np_result,
          merge, cohorts, newchunks, strategies, args, out>>

\* a call of one function on its own
call == <<args, out>>

CallIdle == args = <<>> /\ out = <<>>

\* what the reduction pipeline leaves alone
planner == <<merge, cohorts, newchunks, strategies, args, out>>

PlannerIdle ==
    merge = FALSE /\ cohorts = <<>> /\ newchunks = <<>> /\ strategies = <<>> /\ CallIdle

\* Values and labels of the enumerated inputs: two values and NaN for the
\* reductions that meet NaN values, two values for the others
Vals == {0, 1}

NaNVals == {NaN, 2}

Labs == {NaN, 0, 1}

\* the reductions whose engine ops skip, count or propagate NaN values
NaNFuncs == {"sum", "nansum", "count", "mean"}

\* fill_value=123 of the repository's tests
UserFill == 123

\* the labels of the repository's tests, and the same with the first five missing
labels == <<0, 0, 2, 2, 2, 1, 1, 2, 2, 1, 1, 0>>

nan_labels == [i \in 1..12 |-> IF i <= 5 THEN NaN ELSE labels[i]]

ones12 == [i \in 1..12 |-> 1]

NoResult == [groups |-> <<>>, result |-> <<>>, err |-> FALSE]

inputs == <<array, by, func, expected_groups, fill_value>>

InitInputs ==
    \/ \E n \in 1..MaxLen :
          /\ func \in Funcs
          /\ array \in [1..n -> IF func \in NaNFuncs THEN NaNVals ELSE Vals]
          /\ by \in [1..n -> Labs]
          /\ expected_groups \in {NoGroups, <<0, 1, 2>>}
          /\ fill_value \in {None, UserFill}
          /\ expected_groups # NoGroups => fill_value # None
    \/ /\ array = ones12
       /\ by \in {labels, nan_labels}
       /\ func = "sum"
       /\ expected_groups \in {NoGroups, <<0, 1, 2>>}
       /\ fill_value = UserFill

Init ==
    /\ InitInputs
    /\ pc = "input"
    /\ chunks = <<>>
    /\ pool = <<>>
    /\ result = NoResult
    /\ np_result = NoResult
    /\ PlannerIdle

\* the block sizes a run tries: all of them for the enumerated inputs, the
\* tests' for the 12-element scenario (chunks=3, chunks=4, one block) and
\* for the 29-element one
ChunkChoices(n) ==
    IF n <= MaxLen THEN Chunkings(n)
    ELSE IF n = 12 THEN {<<3, 3, 3, 3>>, <<4, 4, 4>>, <<n>>}
    ELSE {<<4, 8, 4, 9, 4>>}

agg == dask_reduction(func, fill_value)

\* groupby_reduce on the unpartitioned arrays
Numpy ==
    /\ pc = "input"
    /\ np_result' = groupby_reduce_numpy(array, by, func, expected_groups, fill_value)
    /\ pc' = "numpy"
    /\ UNCHANGED <<inputs, chunks, pool, result, planner>>

\* groupby_agg, core.py 487: array and by, each with blocks of its own, are
\* brought to common blocks
UnifyChunks ==
    /\ pc = "numpy"
    /\ \E array_chunks \in ChunkChoices(Len(array)), by_chunks \in ChunkChoices(Len(by)) :
          chunks' = unify_chunks(array_chunks, by_chunks)
    /\ pc' = "unified"
    /\ UNCHANGED <<inputs, pool, result, np_result, planner>>

\* the blockwise layer: every block is reduced on its own
Blockwise ==
    /\ pc = "unified"
    /\ pool' = [b \in 1..Len(chunks) |-> chunk_block(array, by, chunks, b, agg)]
    /\ pc' = "tree"
    /\ UNCHANGED <<inputs, chunks, result, np_result, planner>>

\* one combine task of the tree: adjacent partial results i..j become one
Combine ==
    /\ pc = "tree"
    /\ \E i \in 1..Len(pool), j \in 1..Len(pool) :
          /\ i < j
          /\ pool' = SubSeq(pool, 1, i - 1)
                     \o <<_npg_combine(SubSeq(pool, i, j), agg)>>
                     \o SubSeq(pool, j + 1, Len(pool))
    /\ UNCHANGED <<inputs, pc, chunks, result, np_result, planner>>

\* the aggregate task over the partial results x_chunk, and the arrays
\* groupby_agg returns (core.py 583-619): the groups are expected_groups
\* when given
groupby_agg_output(x_chunk) ==
    LET reduced == _npg_aggregate(x_chunk, agg, expected_groups, fill_value)
    IN  IF reduced.err \/ expected_groups = NoGroups THEN reduced
        ELSE [reduced EXCEPT !.groups = expected_groups]

\* the aggregate task over what is left of the tree
Aggregate ==
    /\ pc = "tree"
    /\ result' = groupby_agg_output(pool)
    /\ pc' = "done"
    /\ pool' = <<>>
    /\ UNCHANGED <<inputs, chunks, np_result, planner>>

Next == Numpy \/ UnifyChunks \/ Blockwise \/ Combine \/ Aggregate

Spec == Init /\ [][Next]_vars

(***************************************************************************)
(* Properties of the reduction pipeline.                                   *)
(***************************************************************************)
\* the blockwise layer of the current call
BlockResults == [b \in 1..Len(chunks) |-> chunk_block(array, by, chunks, b, agg)]

\* the partitioned call when one aggregate task takes every block (the tree
\* of depth one)
FlatResult == groupby_agg_output(BlockResults)

\* C1: the result of the tree reduction is the same for every tree shape:
\* whatever adjacent partial results were combined on the way, the final
\* result equals the one aggregate over all blocks (combining the parts
\* equals reducing their union).
C1_TreeShapeIndependent == pc = "done" => result = FlatResult

\* C3: the partitioned call returns what the unpartitioned call returns on
\* the same data, for every partitioning of the values and of the labels.
C3_PartitionedEqualsUnpartitioned == pc = "done" => result = np_result

\* an identity without a contributing value: its label never occurs, or every
\* value under it is NaN
NoContribution(g) == \A i \in DOMAIN by : by[i] = g => array[i] = NaN

\* C4: on both paths every identity of expected_groups without a
\* contributing value has exactly the user's fill_value in the result.
C4_FillValueForAbsentGroups ==
    expected_groups # NoGroups =>
        \A k \in DOMAIN expected_groups :
            NoContribution(expected_groups[k]) =>
                /\ (pc # "input" /\ ~np_result.err) => np_result.result[k] = fill_value
                /\ (pc = "done" /\ ~result.err) => result.result[k] = fill_value

\* the reduction of exactly the values whose label is g
ReductionOf(g) ==
    LET members == SortedSeq({i \in DOMAIN by : by[i] = g})
    IN  npg_reduce(func, Take(array, members), [k \in DOMAIN members |-> members[k] - 1])

\* the identities the entries of a result stand for
Identities(r) == IF expected_groups = NoGroups THEN r.groups ELSE expected_groups

ScenarioSums == IF by = labels THEN <<3, 4, 5>> ELSE <<1, 4, 2>>

\* C5: values under a missing label contribute to no group: every group's
\* result is the reduction of exactly the values under its label, the
\* returned groups are the labels that occur and never the missing sentinel,
\* and the twelve 1s sum to [3,4,5], or [1,4,2] with the first five labels
\* missing, on both paths.
C5_MissingLabelsContributeNowhere ==
    /\ (pc # "input" /\ ~np_result.err) =>
          /\ np_result.groups = unique_labels(by)
          /\ \A k \in DOMAIN Identities(np_result) :
                Identities(np_result)[k] \in Range(by) =>
                    np_result.result[k] = ReductionOf(Identities(np_result)[k])
    /\ (pc = "done" /\ ~result.err) =>
          /\ NaN \notin Range(result.groups)
          /\ \A k \in DOMAIN Identities(result) :
                ~NoContribution(Identities(result)[k]) =>
                    result.result[k] = ReductionOf(Identities(result)[k])
    /\ \A i \in DOMAIN pool : NaN \notin Range(pool[i].groups)
    /\ (array = ones12 /\ pc # "input") => np_result.result = ScenarioSums
    /\ (array = ones12 /\ pc = "done") => result.result = ScenarioSums

\* both calls of the scenario with the first five labels missing returned
C5_Witness ==
    /\ pc = "done"
    /\ by = nan_labels
    /\ result.result = <<1, 4, 2>>
    /\ np_result.result = <<1, 4, 2>>

(***************************************************************************)
(* The cohort scheduler, find_group_cohorts(labels, chunks, merge): which  *)
(* labels can be reduced together, from the blocks that hold them.  A      *)
(* cohort is [blocks, labels]: its key, the set of (0-based) block         *)
(* indices, and its labels in ascending order.                             *)
(***************************************************************************)
\* Longest label array and number of distinct labels of the enumerated
\* cohort inputs
MaxCohortLen == 4

NumLabels == 3

\* the one block of a label, when only its first block is recorded
first_chunk_only(labs, blocks, lab) ==
    {SetMin({c \in 1..Len(blocks) : lab \in Range(Block(labs, blocks, c))}) - 1}

\* label_chunks[lab]: the blocks that hold label lab
label_chunks(labs, blocks, lab) ==
    {c - 1 : c \in {d \in 1..Len(blocks) : lab \in Range(Block(labs, blocks, d))}}

\* the ascending sequence of the records of S by their (distinct) keys
SortBy(S, key(_)) ==
    [i \in 1..Cardinality(S) |->
        CHOOSE x \in S : Cardinality({y \in S : key(y) < key(x)}) = i - 1]

\* the grouping when a later label of a block set replaces the earlier ones
chunks_cohorts_overwrite(labs, blocks) ==
    LET present == Range(labs) \ {NaN}
        keys == {label_chunks(labs, blocks, l) : l \in present}
    IN  {[blocks |-> k,
          labels |-> <<SetMax({l \in present : label_chunks(labs, blocks, l) = k})>>] :
            k \in keys}

\* chunks_cohorts: the labels grouped by identical block set
chunks_cohorts(labs, blocks) ==
    LET present == Range(labs) \ {NaN}
        keys == {label_chunks(labs, blocks, l) : l \in present}
    IN  {[blocks |-> k,
          labels |-> SortedSeq({l \in present : label_chunks(labs, blocks, l) = k})] :
            k \in keys}

\* merging that merges nothing
no_merge(items) == items

RECURSIVE merge_cohorts(_)
\* merge=True: in the given order, a cohort takes in every later cohort whose
\* block set is contained in its own
merge_cohorts(items) ==
    IF items = <<>> THEN <<>>
    ELSE LET k1 == items[1]
             absorbed == SelectSeq(Tail(items), LAMBDA c : c.blocks \subseteq k1.blocks)
             kept == SelectSeq(Tail(items), LAMBDA c : ~(c.blocks \subseteq k1.blocks))
             merged == Range(k1.labels)
                       \cup UNION {Range(absorbed[i].labels) : i \in DOMAIN absorbed}
         IN  <<[blocks |-> k1.blocks, labels |-> SortedSeq(merged)]>> \o merge_cohorts(kept)

\* the cohorts in order of their first label only
find_group_cohorts_by_label(labs, blocks, merge_) ==
    LET cc == chunks_cohorts(labs, blocks)
        by_size == SortBy(cc, LAMBDA c : (0 - Cardinality(c.blocks)) * 1000 + c.labels[1])
        picked == IF merge_ THEN Range(merge_cohorts(by_size)) ELSE cc
    IN  SortBy(picked, LAMBDA c : c.labels[1])

\* find_group_cohorts: with merge, the cohorts are visited from the one on
\* most blocks to the one on fewest; the result is ordered by first block
\* index, then by first label
find_group_cohorts(labs, blocks, merge_) ==
    LET cc == chunks_cohorts(labs, blocks)
        by_size == SortBy(cc, LAMBDA c : (0 - Cardinality(c.blocks)) * 1000 + c.labels[1])
        picked == IF merge_ THEN Range(merge_cohorts(by_size)) ELSE cc
    IN  SortBy(picked, LAMBDA c : SetMin(c.blocks) * 1000 + c.labels[1])

(***************************************************************************)
(* The rechunk planner, _get_optimal_chunks_for_groups(chunks, labels):    *)
(* block sizes near the given ones whose boundaries fall between groups.   *)
(***************************************************************************)
\* Longest label array of the enumerated planner inputs
MaxRunLen == 5

\* np.cumsum(chunks)
cumsum(chunks_) == [k \in DOMAIN chunks_ |-> SumSeq(SubSeq(chunks_, 1, k))]

\* np.diff(idx)
diff(idx) == [k \in 1..(Len(idx) - 1) |-> idx[k + 1] - idx[k]]

\* first and last (0-based) position of a label
first_indexes(labs, lab) == SetMin({i \in DOMAIN labs : labs[i] = lab}) - 1

\* the last position, counted from one
last_indexes_from_one(labs, lab) == SetMax({i \in DOMAIN labs : labs[i] = lab})

last_indexes(labs, lab) == SetMax({i \in DOMAIN labs : labs[i] = lab}) - 1

Abs(x) == IF x < 0 THEN 0 - x ELSE x

RECURSIVE newchunkidx(_, _, _, _, _)
\* the loop over zip(chunkidx, firstidx, lastidx) from position k on; acc is
\* newchunkidx so far
newchunkidx(chunkidx, firstidx, lastidx, k, acc) ==
    IF k > Len(chunkidx) \/ k > Len(firstidx) THEN acc
    ELSE LET c == chunkidx[k]
             f == firstidx[k]
             l == lastidx[k]
         IN  IF c = 0 \/ Last(acc) > l
             THEN newchunkidx(chunkidx, firstidx, lastidx, k + 1, acc)
             ELSE IF Abs(c - f) < Abs(c - l) /\ f > Last(acc)
             THEN newchunkidx(chunkidx, firstidx, lastidx, k + 1, Append(acc, f))
             ELSE newchunkidx(chunkidx, firstidx, lastidx, k + 1, Append(acc, l + 1))

_get_optimal_chunks_for_groups(chunks_, labs) ==
    LET chunkidx == [k \in DOMAIN chunks_ |-> cumsum(chunks_)[k] - 1]
        labels_at_chunk_bounds == SortedSeq({labs[chunkidx[k] + 1] : k \in DOMAIN chunkidx})
        lastidx == [k \in DOMAIN labels_at_chunk_bounds |->
                       last_indexes(labs, labels_at_chunk_bounds[k])]
        firstidx == [k \in DOMAIN labels_at_chunk_bounds |->
                        first_indexes(labs, labels_at_chunk_bounds[k])]
        idx == newchunkidx(chunkidx, firstidx, lastidx, 1, <<0>>)
        closed == IF Last(idx) # Last(chunkidx) + 1 THEN Append(idx, Last(chunkidx) + 1)
                  ELSE idx
    IN  IF Len(chunkidx) = Len(lastidx) /\ \A k \in DOMAIN chunkidx : chunkidx[k] = lastidx[k]
        THEN chunks_
        ELSE asarray(diff(closed))

(***************************************************************************)
(* The strategies next to map-reduce.  "cohorts": every cohort's blocks    *)
(* are reduced, combined and finalized on their own, for the cohort's      *)
(* labels, and the outputs are concatenated along the group axis.          *)
(* "blockwise": every block is reduced and finalized on its own, nothing   *)
(* is combined; it applies when no label lies in two blocks.               *)
(***************************************************************************)
\* sort=True: the output in ascending order of its groups
sorted_output(groups, values) ==
    LET sortidx == argsort(groups)
    IN  [groups |-> Take(groups, sortidx), result |-> Take(values, sortidx), err |-> FALSE]

cohorts_method(merge_) ==
    LET cs == find_group_cohorts(by, chunks, merge_)
        one(c) == LET blocks == SortedSeq(c.blocks)
                  IN  _npg_aggregate([k \in DOMAIN blocks |-> BlockResults[blocks[k] + 1]],
                                     agg, c.labels, fill_value)
        outs == [k \in DOMAIN cs |-> one(cs[k])]
    IN  IF \E k \in DOMAIN outs : outs[k].err THEN RaisedResult
        ELSE sorted_output(Concat([k \in DOMAIN cs |-> cs[k].labels]),
                           Concat([k \in DOMAIN cs |-> outs[k].result]))

blockwise_applies ==
    \A l \in Range(by) \ {NaN} : Cardinality(label_chunks(by, chunks, l)) = 1

blockwise_method ==
    LET outs == [b \in DOMAIN BlockResults |->
                    _finalize_results(BlockResults[b], agg, NoGroups, fill_value, TRUE)]
    IN  IF \E b \in DOMAIN outs : outs[b].err THEN RaisedResult
        ELSE sorted_output(Concat([b \in DOMAIN outs |-> outs[b].groups]),
                           Concat([b \in DOMAIN outs |-> outs[b].result]))

RECURSIVE np_repeat(_, _)
\* np.repeat(a, repeats)
np_repeat(a, repeats) ==
    IF a = <<>> THEN <<>>
    ELSE [i \in 1..repeats[1] |-> a[1]] \o np_repeat(Tail(a), Tail(repeats))

\* the labels of test_cohorts_map_reduce_consistent_dtypes
repeat_labels == np_repeat(<<0, 1, 2, 3, 4, 5>>, <<4, 4, 12, 2, 3, 4>>)

\* the same call with every method: groupby_reduce without expected_groups
InitMethods ==
    /\ \/ \E n \in 1..MaxLen :
             /\ func \in Funcs
             /\ array \in [1..n -> IF func \in NaNFuncs THEN NaNVals ELSE Vals]
             /\ by \in [1..n -> Labs]
             /\ fill_value \in {None, UserFill}
             /\ func \in ArgFuncs => fill_value # None
       \/ /\ array = repeat_labels
          /\ by = repeat_labels
          /\ func \in {"count", "sum"}
          /\ fill_value = None
    /\ expected_groups = NoGroups
    /\ pc = "input"
    /\ chunks = <<>>
    /\ pool = <<>>
    /\ result = NoResult
    /\ np_result = NoResult
    /\ PlannerIdle

\* method="cohorts" on the blocks of the map-reduce run
CohortsStrategy ==
    /\ pc = "done"
    /\ \E merge_ \in BOOLEAN :
          strategies' = Append(strategies, [method |-> "cohorts", out |-> cohorts_method(merge_)])
    /\ pc' = "cohorts"
    /\ UNCHANGED <<inputs, chunks, pool, result, np_result, merge, cohorts, newchunks, call>>

\* method="blockwise" on the same blocks, where it applies
BlockwiseStrategy ==
    /\ pc = "cohorts"
    /\ blockwise_applies
    /\ strategies' = Append(strategies, [method |-> "blockwise", out |-> blockwise_method])
    /\ pc' = "blockwise"
    /\ UNCHANGED <<inputs, chunks, pool, result, np_result, merge, cohorts, newchunks, call>>

NextMethods ==
    \/ Numpy
    \/ UnifyChunks
    \/ Blockwise
    \/ Combine
    \/ Aggregate
    \/ CohortsStrategy
    \/ BlockwiseStrategy

SpecMethods == InitMethods /\ [][NextMethods]_vars

\* C2: cohorts, blockwise (where it applies) and map-reduce return the same
\* groups and the same value per group for the same values, labels and func.
C2_StrategiesAgree ==
    \A i \in DOMAIN strategies : strategies[i].out = result

(***************************************************************************)
(* The cohort scheduler on its own: labels, a blocking, find_group_cohorts.*)
(***************************************************************************)
\* what the planner's runs leave alone
ReduceIdle ==
    /\ array = <<>>
    /\ func = "sum"
    /\ expected_groups = NoGroups
    /\ fill_value = None
    /\ pool = <<>>
    /\ result = NoResult
    /\ np_result = NoResult
    /\ CallIdle

reduction == <<array, func, expected_groups, fill_value, pool, result, np_result, args, out>>

\* the labels of test_find_group_cohorts
cohort_labels == <<1, 2, 3, 1, 2, 3, 4>>

InitCohorts ==
    /\ by \in UNION {[1..n -> 1..NumLabels] : n \in 1..MaxCohortLen}
              \cup {cohort_labels, repeat_labels}
    /\ merge \in BOOLEAN
    /\ pc = "labels"
    /\ chunks = <<>>
    /\ cohorts = <<>>
    /\ newchunks = <<>>
    /\ strategies = <<>>
    /\ ReduceIdle

\* the blockings tried: all of them, and the tests' for the 29 labels
BlockChoices(n) == IF n < Len(repeat_labels) THEN Chunkings(n) ELSE {<<4, 8, 4, 9, 4>>}

\* the label array is cut into blocks
ChooseBlocks ==
    /\ pc = "labels"
    /\ chunks' \in BlockChoices(Len(by))
    /\ pc' = "blocks"
    /\ UNCHANGED <<reduction, by, merge, cohorts, newchunks, strategies>>

FindGroupCohorts ==
    /\ pc = "blocks"
    /\ cohorts' = find_group_cohorts(by, chunks, merge)
    /\ pc' = "cohorts"
    /\ UNCHANGED <<reduction, by, chunks, merge, newchunks, strategies>>

NextCohorts == ChooseBlocks \/ FindGroupCohorts

SpecCohorts == InitCohorts /\ [][NextCohorts]_vars

\* the blocks (0-based) in which label l occurs, read off the arrays
BlocksOf(l) == {b \in 0..(Len(chunks) - 1) : l \in Range(Block(by, chunks, b + 1))}

\* the cohorts (positions in the returned list) that hold label l
CohortsOf(l) == {k \in DOMAIN cohorts : l \in Range(cohorts[k].labels)}

Returned == pc = "cohorts"

\* C6: every group's full set of containing blocks lies within a single
\* cohort: the label is in one cohort only, and all the blocks that hold the
\* label are blocks of that cohort.
C6_NoGroupSpansTwoCohorts ==
    Returned =>
        \A l \in Range(by) :
            /\ Cardinality(CohortsOf(l)) = 1
            /\ \A k \in CohortsOf(l) : BlocksOf(l) \subseteq cohorts[k].blocks

\* a label on two blocks was placed, under both values of merge
C6_Witness ==
    /\ Returned
    /\ by = cohort_labels
    /\ chunks = <<2, 2, 2, 1>>
    /\ merge
    /\ Len(cohorts) = 4
    /\ cohorts[1].blocks = {0, 1}

CohortLabels == [k \in DOMAIN cohorts |-> cohorts[k].labels]

TestCall(chunks_, merge_) ==
    Returned /\ by = cohort_labels /\ chunks = chunks_ /\ merge = merge_

C9_CohortLists ==
    Returned =>
        /\ \A l \in Range(by) : Cardinality(CohortsOf(l)) = 1
        /\ \A k \in DOMAIN cohorts :
              /\ cohorts[k].labels = SortedSeq(Range(cohorts[k].labels))
              /\ cohorts[k].labels # <<>>
        /\ ~merge => \A l1, l2 \in Range(by) :
                        (CohortsOf(l1) = CohortsOf(l2)) <=> (BlocksOf(l1) = BlocksOf(l2))
        /\ merge => /\ \A l1, l2 \in Range(by) :
                          BlocksOf(l1) = BlocksOf(l2) => CohortsOf(l1) = CohortsOf(l2)
                    /\ \A j, k \in DOMAIN cohorts :
                          cohorts[j].blocks \subseteq cohorts[k].blocks => j = k
                    /\ \A l \in Range(by) : \A k \in CohortsOf(l) :
                          BlocksOf(l) \subseteq cohorts[k].blocks
        /\ \A j, k \in DOMAIN cohorts :
              j < k => SetMin(cohorts[j].blocks) <= SetMin(cohorts[k].blocks)
        /\ by = cohort_labels =>
              /\ (chunks = <<3, 4>> /\ ~merge) => CohortLabels = <<<<1, 2, 3>>, <<4>>>>
              /\ (chunks = <<3, 4>> /\ merge) => CohortLabels = <<<<1, 2, 3, 4>>>>
              /\ chunks = <<2, 2, 2, 1>> => CohortLabels = <<<<1>>, <<2>>, <<3>>, <<4>>>>
              /\ chunks = <<3, 3, 1>> => CohortLabels = <<<<1, 2, 3>>, <<4>>>>
        /\ (by = repeat_labels /\ merge) => CohortLabels = <<<<0>>, <<1, 2, 3, 4>>, <<5>>>>

\* a merge happened: the 29 labels of the test in five blocks
C9_Witness ==
    /\ Returned
    /\ by = repeat_labels
    /\ merge
    /\ CohortLabels = <<<<0>>, <<1, 2, 3, 4>>, <<5>>>>

(***************************************************************************)
(* The rechunk planner on its own: run-grouped labels, a blocking,         *)
(* _get_optimal_chunks_for_groups.                                         *)
(***************************************************************************)
\* the labels of test_rechunk_for_blockwise
rechunk_labels == <<1, 1, 1, 2, 2, 3, 3, 5, 5, 5>>

\* each group is one contiguous run
IsRuns(labs) ==
    \A i, j \in DOMAIN labs :
        (i < j /\ labs[i] = labs[j]) => \A k \in i..j : labs[k] = labs[i]

InitChunks ==
    /\ by \in {labs \in UNION {[1..n -> 0..(NumLabels - 1)] : n \in 1..MaxRunLen} :
                  IsRuns(labs)} \cup {rechunk_labels}
    /\ merge = FALSE
    /\ pc = "labels"
    /\ chunks = <<>>
    /\ cohorts = <<>>
    /\ newchunks = <<>>
    /\ strategies = <<>>
    /\ ReduceIdle

GetOptimalChunks ==
    /\ pc = "blocks"
    /\ newchunks' = _get_optimal_chunks_for_groups(chunks, by)
    /\ pc' = "planned"
    /\ UNCHANGED <<reduction, by, chunks, merge, cohorts, strategies>>

NextChunks == ChooseBlocks \/ GetOptimalChunks

SpecChunks == InitChunks /\ [][NextChunks]_vars

\* the interior boundaries of the returned blocks
NewBoundaries == Bounds(newchunks) \ {Len(by)}

\* the tests' table: input blocks and the blocks expected for rechunk_labels
RechunkTable ==
    { <<<<1, 1, 1, 1, 1, 1, 1, 1, 1, 1>>, <<3, 2, 2, 3>>>>,
      <<<<2, 2, 2, 2, 2>>, <<3, 2, 2, 3>>>>,
      <<<<3, 3, 3, 1>>, <<3, 2, 5>>>>,
      <<<<3, 1, 1, 2, 1, 1, 1>>, <<3, 2, 2, 3>>>>,
      <<<<3, 2, 2, 3>>, <<3, 2, 2, 3>>>>,
      <<<<4, 4, 2>>, <<3, 4, 3>>>>,
      <<<<5, 5>>, <<5, 5>>>>,
      <<<<6, 4>>, <<5, 5>>>>,
      <<<<7, 3>>, <<7, 3>>>>,
      <<<<8, 2>>, <<7, 3>>>>,
      <<<<9, 1>>, <<10>>>>,
      <<<<10>>, <<10>>>> }

\* C10: for run-grouped labels and any blocks that sum to their length, the
\* returned block sizes are positive, sum to the length, and every interior
\* boundary is at an index where the label changes; the tests' inputs give
\* the tests' blocks ((4,4,2) gives (3,4,3), (9,1) gives (10,)).
C10_BoundariesBetweenGroups ==
    pc = "planned" =>
        /\ \A k \in DOMAIN newchunks : newchunks[k] > 0
        /\ SumSeq(newchunks) = Len(by)
        /\ \A b \in NewBoundaries : by[b] # by[b + 1]
        /\ by = rechunk_labels =>
              \A t \in RechunkTable : chunks = t[1] => newchunks = t[2]

\* blocks that split runs were moved to the runs' ends
C10_Witness ==
    /\ pc = "planned"
    /\ by = rechunk_labels
    /\ chunks = <<4, 4, 2>>
    /\ newchunks = <<3, 4, 3>>

(***************************************************************************)
(* Calls of one function on its own.  Every other variable stays idle.     *)
(***************************************************************************)
\* no reduction and no planner run is under way
NoReduction ==
    /\ array = <<>>
    /\ by = <<>>
    /\ func = "sum"
    /\ expected_groups = NoGroups
    /\ fill_value = None
    /\ chunks = <<>>
    /\ pool = <<>>
    /\ result = NoResult
    /\ np_result = NoResult
    /\ merge = FALSE
    /\ cohorts = <<>>
    /\ newchunks = <<>>
    /\ strategies = <<>>

\* what a call of one function leaves alone
rest == <<inputs, chunks, pool, result, np_result, merge, cohorts, newchunks, strategies>>

(***************************************************************************)
(* The forced-boundary rechunker, rechunk_for_cohorts(array, axis, labels, *)
(* force_new_chunk_at, chunksize=None, ignore_old_chunks=False): the new   *)
(* block sizes of the axis, or ValueError.                                 *)
(***************************************************************************)
\* oldbreaks: np.insert(np.cumsum(oldchunks), 0, 0)
oldbreaks(oldchunks) == {0} \cup Bounds(oldchunks)

\* a division is forced only at the first position
first_position_only(labs, force, idx) == idx = 0

\* lab in force_new_chunk_at or idx == 0 (idx is 0-based)
forced_division(labs, force, idx) == labs[idx + 1] \in force \/ idx = 0

\* next_break_is_close: the next forced position after idx is at most
\* chunksize // 2 away
next_break_is_close(labs, force, chunksize, idx) ==
    \E j \in (idx + 1)..Len(labs) :
        /\ labs[j] \in force
        /\ \A k \in (idx + 1)..(j - 1) : labs[k] \notin force
        /\ j - 1 - idx <= chunksize \div 2

RECURSIVE divisions(_, _, _, _, _, _, _, _)
\* the loop over enumerate(labels) from idx on; acc is divisions so far
divisions(labs, force, oldchunks, chunksize, ignore_old_chunks, idx, counter, acc) ==
    IF idx >= Len(labs) THEN Append(acc, Len(labs))
    ELSE IF forced_division(labs, force, idx)
    THEN divisions(labs, force, oldchunks, chunksize, ignore_old_chunks, idx + 1, 1,
                   Append(acc, idx))
    ELSE IF \/ ~ignore_old_chunks /\ idx \in oldbreaks(oldchunks)
            \/ counter >= chunksize /\ ~next_break_is_close(labs, force, chunksize, idx)
    THEN divisions(labs, force, oldchunks, chunksize, ignore_old_chunks, idx + 1, 1,
                   Append(acc, idx))
    ELSE divisions(labs, force, oldchunks, chunksize, ignore_old_chunks, idx + 1,
                   counter + 1, acc)

\* rechunk_for_cohorts: the chunks of the returned array along axis;
\* chunksize defaults to the first old block
rechunk_for_cohorts(oldchunks, labs, force, ignore_old_chunks) ==
    IF Range(labs) \cap force = {} THEN [chunks |-> <<>>, err |-> TRUE]
    ELSE [chunks |-> asarray(diff(divisions(labs, force, oldchunks, oldchunks[1],
                                            ignore_old_chunks, 0, 1, <<>>))),
          err |-> FALSE]

\* the labels of test_rechunk_for_cohorts: np.arange(0, 30) % 7
arange_mod7 == [i \in 1..30 |-> (i - 1) % 7]

InitRechunk ==
    /\ \/ \E n \in 1..MaxRunLen :
             args \in [labels : [1..n -> 0..(NumLabels - 1)],
                       chunks : Chunkings(n),
                       force_new_chunk_at : 0..(NumLabels - 1),
                       ignore_old_chunks : BOOLEAN]
       \/ args \in [labels : {arange_mod7},
                    chunks : {<<7, 7, 7, 7, 2>>},
                    force_new_chunk_at : 0..6,
                    ignore_old_chunks : BOOLEAN]
    /\ out = <<>>
    /\ pc = "call"
    /\ NoReduction

RechunkForCohorts ==
    /\ pc = "call"
    /\ out' = rechunk_for_cohorts(args.chunks, args.labels, {args.force_new_chunk_at},
                                  args.ignore_old_chunks)
    /\ pc' = "returned"
    /\ UNCHANGED <<rest, args>>

NextRechunk == RechunkForCohorts

SpecRechunk == InitRechunk /\ [][NextRechunk]_vars

\* the interior boundaries of the blocks rechunk_for_cohorts returned
ForcedBoundaries == Bounds(out.chunks) \ {Len(args.labels)}

\* C11: rechunk_for_cohorts with force_new_chunk_at = L returns positive
\* block sizes that sum to the axis length; a block starts at every position
\* whose label is L; the old boundaries are kept (unless ignore_old_chunks);
\* every other boundary closes a block of at least the nominal size; the 30
\* labels i mod 7 in blocks of 7 give the tests' blocks for L = 1, 0 and 3.
\* A label L that does not occur is an error.
C11_ForcedBoundaries ==
    pc = "returned" =>
        IF args.force_new_chunk_at \notin Range(args.labels) THEN out.err
        ELSE /\ ~out.err
             /\ \A k \in DOMAIN out.chunks : out.chunks[k] > 0
             /\ SumSeq(out.chunks) = Len(args.labels)
             /\ \A i \in 1..(Len(args.labels) - 1) :
                   args.labels[i + 1] = args.force_new_chunk_at => i \in ForcedBoundaries
             /\ ~args.ignore_old_chunks => Bounds(args.chunks) \subseteq Bounds(out.chunks)
             /\ \A b \in ForcedBoundaries :
                   \/ args.labels[b + 1] = args.force_new_chunk_at
                   \/ ~args.ignore_old_chunks /\ b \in Bounds(args.chunks)
                   \/ \A d \in (b - args.chunks[1] + 1)..(b - 1) : d \notin ForcedBoundaries
             /\ (args.labels = arange_mod7 /\ ~args.ignore_old_chunks) =>
                   /\ args.force_new_chunk_at = 1 =>
                         out.chunks = <<1, 6, 1, 6, 1, 6, 1, 6, 1, 1>>
                   /\ args.force_new_chunk_at = 0 => out.chunks = <<7, 7, 7, 7, 2>>
                   /\ args.force_new_chunk_at = 3 =>
                         out.chunks = <<3, 4, 3, 4, 3, 4, 3, 4, 2>>

\* the test's call with force_new_chunk_at=3 returned
C11_Witness ==
    /\ pc = "returned"
    /\ args.labels = arange_mod7
    /\ args.force_new_chunk_at = 3
    /\ ~args.ignore_old_chunks
    /\ out.chunks = <<3, 4, 3, 4, 3, 4, 3, 4, 2>>

(***************************************************************************)
(* reindex_ on a 2-D array along an axis (core.py 45-69).  A 2-D array is  *)
(* the sequence of its rows; a call returns [array, err], err naming the   *)
(* exception raised ("" when none).                                        *)
(***************************************************************************)
\* Largest extent of an axis of the enumerated arrays, longest `to`
MaxExtent == 2

MaxTo == 3

\* identity sequences: the labels
Identity == 0..2

\* the sequences over S of length n without duplicates
Injective(S, n) == {f \in [1..n -> S] : \A i, j \in 1..n : f[i] = f[j] => i = j}

\* the axis arguments tried: the first axis, the last axis counted from the
\* end, and the last axis counted from the front (test_reindex)
Axes == {0, 0 - 1, 1}

InitReindex ==
    /\ \E r \in 0..MaxExtent, c \in 0..MaxExtent, n \in 1..MaxTo, axis \in Axes :
          args \in [array : [1..r -> [1..c -> {1, 2}]],
                    shape : {<<r, c>>},
                    from_ : Injective(Identity, IF axis = 0 THEN r ELSE c),
                    to : [1..n -> Identity],
                    fill_value : {None, 0},
                    axis : {axis}]
    /\ out = <<>>
    /\ pc = "call"
    /\ NoReduction

\* reindex_(array, from_, to, fill_value, axis)
Reindex ==
    /\ pc = "call"
    /\ out' = reindex_axis(args.array, args.shape, args.from_, args.to, args.fill_value,
                            args.axis)
    /\ pc' = "returned"
    /\ UNCHANGED <<rest, args>>

\* the result is reindexed back, to a non-empty from_:
\* reindex_(out, to, from_, fill_value, axis)
ReindexBack ==
    /\ pc = "returned"
    /\ out.err = ""
    /\ args.from_ # <<>>
    /\ out' = reindex_axis(out.array, out.shape, args.to, args.from_, args.fill_value,
                            args.axis)
    /\ pc' = "back"
    /\ UNCHANGED <<rest, args>>

NextReindex == Reindex \/ ReindexBack

SpecReindex == InitReindex /\ [][NextReindex]_vars

\* slice i of a 2-D array along axis: a row for the first axis, a column for
\* the last
Slice(a, i, axis) == IF axis = 0 THEN a[i] ELSE [r \in DOMAIN a |-> a[r][i]]

\* the claim of reindex_ for one call that returned res
ReindexedSlices(res) ==
    IF args.fill_value = None /\ \E i \in DOMAIN args.to : args.to[i] \notin Range(args.from_)
    THEN res.err # ""
    ELSE /\ res.err = ""
         /\ \A i \in DOMAIN args.to :
               IF args.to[i] \in Range(args.from_)
               THEN Slice(res.array, i, args.axis)
                        = Slice(args.array, IndexOf(args.from_, args.to[i]), args.axis)
               ELSE \A k \in DOMAIN Slice(res.array, i, args.axis) :
                        Slice(res.array, i, args.axis)[k] = args.fill_value

\* C12: reindex_ with non-empty from_: slice i of the output along axis is
\* the input slice at the position of to[i] in from_, or entirely fill_value
\* when to[i] is not in from_; the call raises when a label is absent and
\* fill_value is None, and only then.
C12_ReindexCopiesOrFills == (pc = "returned" /\ args.from_ # <<>>) => ReindexedSlices(out)

\* every entry of slice i of a along axis is v
AllFill(a, i, axis, v) ==
    \A k \in DOMAIN Slice(a, i, axis) : Slice(a, i, axis)[k] = v

NoDuplicates(seq) == \A i, j \in DOMAIN seq : seq[i] = seq[j] => i = j

\* a call the round trip is stated for: A = from_ and B = to without
\* duplicates, a fill value, along the first or the last axis
RoundTripCall ==
    /\ args.axis \in {0, 0 - 1}
    /\ args.fill_value # None
    /\ NoDuplicates(args.to)

\* C13: reindexing from A to B and back to A restores x at every position of
\* A whose identity is in B and leaves f at the others; when B is disjoint
\* from A the reindexed array is entirely f.
C13_ReindexRoundTrip ==
    /\ (pc = "back" /\ RoundTripCall) =>
          /\ out.err = ""
          /\ out.shape = args.shape
          /\ \A j \in DOMAIN args.from_ :
                IF args.from_[j] \in Range(args.to)
                THEN Slice(out.array, j, args.axis) = Slice(args.array, j, args.axis)
                ELSE AllFill(out.array, j, args.axis, args.fill_value)
    /\ (pc = "returned" /\ RoundTripCall /\ Range(args.to) \cap Range(args.from_) = {}) =>
          /\ out.err = ""
          /\ \A i \in 1..extent(out.shape, args.axis) :
                AllFill(out.array, i, args.axis, args.fill_value)

\* a round trip that restored one position and filled the other
C13_Witness ==
    /\ pc = "back"
    /\ args.axis = 0 - 1
    /\ args.from_ = <<0, 1>>
    /\ args.to = <<1, 2>>
    /\ args.fill_value = 0
    /\ args.array = <<<<1, 2>>>>
    /\ out.array = <<<<0, 2>>>>

\* a call with an empty from_identities: the input has length 0 along axis
EmptyFrom == args.axis \in {0, 0 - 1} /\ extent(args.shape, args.axis) = 0

\* C26: reindex_ called with an empty from_identities (input of length 0
\* along the group axis) and fill_value None raises an error rather than
\* returning an array.
C26_EmptyFromWithoutFillRaises ==
    (pc = "returned" /\ EmptyFrom /\ args.fill_value = None) => out.err # ""

\* the input's shape with len(to) along axis
ShapeWithTo ==
    IF args.axis = 0 THEN <<Len(args.to), args.shape[2]>> ELSE <<args.shape[1], Len(args.to)>>

\* C27: for axis 0 and for the last axis, and for every input including one
\* with an empty from_identities, the array returned by reindex_ has length
\* len(to) along axis and the input's lengths along all other axes.
C27_ReindexedShape ==
    (pc = "returned" /\ args.axis \in {0, 0 - 1} /\ out.err = "") => out.shape = ShapeWithTo

(***************************************************************************)
(* groupby_reduce as one call (core.py 622-759): the checks it makes, the  *)
(* branch it takes and, on the partitioned branch, the layers of the task  *)
(* graph groupby_agg has built by the time the call returns or raises.     *)
(* The arguments are a record: array and by (flattened), whether each is a *)
(* dask array, the blocks along the reduced axes, by's number of           *)
(* dimensions, axis, func (a name, or a descriptor object when             *)
(* is_aggregation), expected_groups, fill_value and split_out.             *)
(***************************************************************************)
\* Longest array of a call, and the most dimensions of its labels
MaxCallLen == 2

MaxNdim == 3

\* axis=None
NoAxis == <<None>>

\* the names aggregations.py defines a descriptor for
Registry == Funcs \cup {"first", "last"}

\* what a call that returned leaves: the graph layers built, in order, and
\* the values when they were computed in the call (unpartitioned input)
ReturnedCall(layers, res) == [err |-> "", layers |-> layers, result |-> res]

\* what a call that raised leaves: the exception, and the layers built
\* before it
RaisedCall(err, layers) == [err |-> err, layers |-> layers, result |-> NoResult]

\* core.py 662-665: axis=None means all of by's dimensions (the trailing
\* ones of array; here array has by's dimensions)
normalize_axis(axis, by_ndim) ==
    IF axis = NoAxis THEN [i \in 1..by_ndim |-> i - 1] ELSE axis

\* groupby_agg (core.py 466-619): the blockwise layer is built first
\* (494-514), then split_out is looked at (516-520), then the split layer
\* (521-546), the tree reduction (557-572), the groups (583-599) and the
\* result (602-617)
groupby_agg_layers(split_out, expected) ==
    IF split_out > 1 /\ expected = NoGroups
    THEN RaisedCall("NotImplementedError", <<"chunk">>)
    ELSE ReturnedCall(<<"chunk">>
                      \o (IF split_out > 1 THEN <<"split">> ELSE <<>>)
                      \o <<"reduce">>
                      \o (IF expected = NoGroups THEN <<"groups">> ELSE <<>>)
                      \o <<"result">>, NoResult)

\* groupby_reduce from its check of axis on (core.py 672-757); axis is
\* normalised and expected is expected_groups after core.py 667-670
groupby_reduce_from(a, axis, expected) ==
    IF Len(axis) = 1 /\ a.by_ndim > 1 /\ expected = NoGroups
    THEN RaisedCall("NotImplementedError", <<>>)
    ELSE IF ~a.is_aggregation /\ a.func \notin Registry
    THEN RaisedCall("NotImplementedError", <<>>)
    ELSE IF ~a.array_dask /\ ~a.by_dask
    THEN \* reduction.fill_value[func]: the mapping's keys are names
         IF a.is_aggregation /\ a.fill_value = None THEN RaisedCall("KeyError", <<>>)
         ELSE IF Len(axis) < a.by_ndim THEN ReturnedCall(<<>>, NoResult)
         ELSE ReturnedCall(<<>>, groupby_reduce_numpy(a.array, a.by, a.func,
                                                      a.expected_groups, a.fill_value))
    ELSE IF ~a.is_aggregation /\ a.func \in {"first", "last"}
    THEN RaisedCall("NotImplementedError", <<>>)
    ELSE groupby_agg_layers(a.split_out, expected)

\* groupby_reduce(array, by, func, expected_groups=, axis=, fill_value=,
\* split_out=)
groupby_reduce(a) ==
    groupby_reduce_from(a, normalize_axis(a.axis, a.by_ndim),
                        IF a.expected_groups = NoGroups /\ ~a.by_dask
                        THEN unique_labels(a.by) ELSE a.expected_groups)

\* the axis arguments for labels of ndim dimensions
AxisChoices(ndim) ==
    {NoAxis} \cup {SortedSeq(S) : S \in (SUBSET (0..(ndim - 1))) \ {{}}}

\* the func arguments: names with and without a descriptor, and descriptors
CallFuncs == {"sum", "mean", "first", "last", "median"}

InitCall ==
    /\ \E n \in 1..MaxCallLen, ndim \in 1..MaxNdim :
          args \in [array : {[i \in 1..n |-> i]},
                    by : [1..n -> {0, 1}],
                    chunks : Chunkings(n),
                    array_dask : BOOLEAN,
                    by_dask : BOOLEAN,
                    by_ndim : {ndim},
                    axis : AxisChoices(ndim),
                    func : CallFuncs,
                    is_aggregation : BOOLEAN,
                    expected_groups : {NoGroups, <<0, 1>>, <<1, 0>>},
                    fill_value : {None, 0},
                    split_out : 1..2]
    /\ args.is_aggregation => args.func \in {"sum", "mean"}
    /\ out = <<>>
    /\ pc = "call"
    /\ NoReduction

GroupbyReduce ==
    /\ pc = "call"
    /\ out' = groupby_reduce(args)
    /\ pc' = "returned"
    /\ UNCHANGED <<rest, args>>

NextCall == GroupbyReduce

SpecCall == InitCall /\ [][NextCall]_vars

\* the call was rejected before any layer of the graph was built and
\* before anything was reduced
RejectedEagerly == out.err # "" /\ out.layers = <<>>

\* C14: a call with split_out > 1 and expected_groups=None is rejected with
\* an error, before any part of the task graph is built, the per-block
\* chunk-reduction layer included.
C14_SplitOutNeedsExpectedGroups ==
    (pc = "returned" /\ args.split_out > 1 /\ args.expected_groups = NoGroups)
        => RejectedEagerly

\* C15: reducing over a strict subset of the label array's dimensions
\* (len(axis) < by.ndim) without expected_groups is rejected with an error
\* before any reduction is performed.
C15_AxisSubsetNeedsExpectedGroups ==
    (pc = "returned" /\ args.axis # NoAxis /\ Len(args.axis) < args.by_ndim
     /\ args.expected_groups = NoGroups)
        => RejectedEagerly

\* array[..., ::-1]
Reverse(s) == [i \in 1..Len(s) |-> s[Len(s) + 1 - i]]

\* INVERSES of test_first_last
Inverse(f) == IF f = "first" THEN "last" ELSE "first"

\* a call of first or last by name over 1-D labels, with nothing else to
\* reject it
FirstLastCall ==
    /\ pc = "returned"
    /\ args.func \in {"first", "last"}
    /\ ~args.is_aggregation
    /\ args.by_ndim = 1
    /\ args.split_out = 1

\* no label has elements in two blocks
OneBlockPerGroup ==
    \A l \in Range(args.by) :
        Cardinality({b \in 1..Len(args.chunks) :
                        l \in Range(Block(args.by, args.chunks, b))}) <= 1

\* C16: first/last over block-partitioned input is rejected when more than
\* one block can contribute to a group and accepted when the blocks
\* guarantee one contributing block per group (a single block along the
\* reduced axis, say); first over (values, labels) equals last over the
\* reversed values and labels.
C16_FirstLastOverBlocks ==
    /\ (FirstLastCall /\ args.array_dask) => (out.err = "" <=> OneBlockPerGroup)
    /\ (FirstLastCall /\ ~args.array_dask /\ ~args.by_dask)
          => out = groupby_reduce([args EXCEPT !.array = Reverse(args.array),
                                               !.by = Reverse(args.by),
                                               !.func = Inverse(args.func)])

\* C17: passing a built-in Aggregation descriptor object as func returns the
\* same result as passing that descriptor's name, on unpartitioned input
\* with fill_value=None.
C17_FuncIsAggregation ==
    (pc = "returned" /\ args.is_aggregation /\ ~args.array_dask /\ ~args.by_dask
     /\ args.fill_value = None)
        => out = groupby_reduce([args EXCEPT !.is_aggregation = FALSE])

\* the 1-based positions of the elements of the call whose label is g
Members(g) == SortedSeq({i \in DOMAIN args.by : args.by[i] = g})

\* the reduction of the call over the elements whose label is g, or the
\* fill_value when there are none
ReductionFor(g) ==
    IF Members(g) = <<>> THEN args.fill_value
    ELSE npg_reduce(args.func, Take(args.array, Members(g)),
                    [k \in 1..Len(Members(g)) |-> Members(g)[k] - 1])

\* a call that returned values: func by name over all of by's dimensions of
\* numpy arrays
ReturnedValues ==
    /\ pc = "returned"
    /\ ~args.array_dask /\ ~args.by_dask
    /\ Len(normalize_axis(args.axis, args.by_ndim)) = args.by_ndim
    /\ out.err = ""
    /\ ~out.result.err

\* entry i of the result is the reduction for expected_groups[i]
InExpectedOrder ==
    /\ Len(out.result.result) = Len(args.expected_groups)
    /\ \A i \in DOMAIN args.expected_groups :
          out.result.result[i] = ReductionFor(args.expected_groups[i])

\* C18: when expected_groups is given, the result's trailing axis has exactly
\* len(expected_groups) entries, entry i is the reduction for identity
\* expected_groups[i] in the order given, and the returned groups equal
\* expected_groups.
C18_ExpectedGroupsOrder ==
    (ReturnedValues /\ args.expected_groups # NoGroups)
        => (InExpectedOrder /\ out.result.groups = args.expected_groups)

(***************************************************************************)
(* factorize_ over one or two keys, each with or without a fixed output    *)
(* set (exact labels or bin edges), and the table xarray_reduce makes of   *)
(* two keys.                                                               *)
(***************************************************************************)
\* Longest label array of a key
MaxKeyLen == 2

\* the labels of a key: below, inside and from the last edge of the bins on;
\* a single key has missing labels too and may be one element longer
KeyLabels == 0..3

\* the fixed output sets: none, exact labels in and out of order, bin edges
FixedSets == {NoGroups, <<1, 2>>, <<2, 1>>, <<1, 2, 3>>}

InitFactorize ==
    /\ \E nkeys \in 1..2, n \in 1..(MaxKeyLen + 1) :
          /\ nkeys = 2 => n <= MaxKeyLen
          /\ args \in
                   [array : {[i \in 1..n |-> 1]},
                    by : [1..nkeys -> [1..n -> IF nkeys = 1 THEN KeyLabels \cup {NaN}
                                               ELSE KeyLabels]],
                    expected_groups : [1..nkeys -> FixedSets],
                    bins : [1..nkeys -> BOOLEAN],
                    func : {"count", "sum"},
                    fill_value : {0}]
    /\ \A k \in DOMAIN args.bins : args.bins[k] => args.expected_groups[k] # <<2, 1>>
    /\ out = <<>>
    /\ pc = "call"
    /\ NoReduction

\* factorize_, and the table made of its flat index
Factorize ==
    /\ pc = "call"
    /\ out' = [f |-> factorize_keys(args.by, args.expected_groups, args.bins),
               table |-> xarray_reduce_factorized(
                             args.array,
                             factorize_keys(args.by, args.expected_groups, args.bins),
                             args.func, args.fill_value)]
    /\ pc' = "returned"
    /\ UNCHANGED <<rest, args>>

NextFactorize == Factorize

SpecFactorize == InitFactorize /\ [][NextFactorize]_vars

\* the 0-based position of label x in the fixed set of key k (of its bin
\* [edge, next edge) when the set is bin edges), or -1 when x is outside
FixedPosition(k, x) ==
    IF args.bins[k]
    THEN Cardinality({e \in 1..(Len(args.expected_groups[k]) - 1) :
                         args.expected_groups[k][e] <= x}) *
         (IF x < Last(args.expected_groups[k]) THEN 1 ELSE 0) - 1
    ELSE IndexOf(args.expected_groups[k], x) - 1

\* every key of the call has a fixed output set
FixedCall(nkeys) ==
    /\ pc = "returned"
    /\ Len(args.by) = nkeys
    /\ \A k \in DOMAIN args.by : args.expected_groups[k] # NoGroups

\* C20: factorize_ with a fixed output set (exact labels or bin edges) gives
\* every element the position of its label (or of its bin) in that set, and
\* -1 to every element whose label is outside the set or outside all bins.
C20_FactorizeFixedSet ==
    FixedCall(1) =>
        /\ ~out.f.err
        /\ out.f.group_idx = [i \in DOMAIN args.by[1] |-> FixedPosition(1, args.by[1][i])]

\* the number of identities of the fixed set of key k
NumIdentities(k) ==
    IF args.bins[k] THEN Len(args.expected_groups[k]) - 1
    ELSE Len(args.expected_groups[k])

\* the elements whose first key maps to identity i and whose second key maps
\* to identity j
CellMembers(i, j) ==
    SortedSeq({e \in DOMAIN args.array :
                  /\ FixedPosition(1, args.by[1][e]) = i
                  /\ FixedPosition(2, args.by[2][e]) = j})

\* the reduction over them, or the fill_value when there are none
CellReduction(members) ==
    IF members = <<>> THEN args.fill_value
    ELSE npg_reduce(args.func, Take(args.array, members),
                    [k \in DOMAIN members |-> members[k] - 1])

\* C19: grouping by two keys, each with its own output identity set, yields
\* a 2-D table whose cell (i, j) is the reduction over exactly the elements
\* whose first key maps to identity i and whose second key maps to identity
\* j; an element excluded by either key contributes to no cell.
C19_TwoKeysCrossTabulation ==
    FixedCall(2) =>
        /\ ~out.table.err
        /\ out.table.shape = <<NumIdentities(1), NumIdentities(2)>>
        /\ \A i \in 0..(NumIdentities(1) - 1), j \in 0..(NumIdentities(2) - 1) :
              out.table.result[i * NumIdentities(2) + j + 1]
                  = CellReduction(CellMembers(i, j))

\* factorize_ of one key without a fixed output set
NoFixedCall ==
    /\ pc = "returned"
    /\ Len(args.by) = 1
    /\ args.expected_groups[1] = NoGroups
    /\ ~args.bins[1]

\* the indices idx of the labels labs are dense over the found groups, with
\* the missing labels in the one bucket after them
DenseIndices(labs, idx, groups) ==
    /\ \A i, j \in DOMAIN labs :
          (labs[i] # NaN /\ labs[j] # NaN) => (labs[i] = labs[j] <=> idx[i] = idx[j])
    /\ {idx[i] : i \in {e \in DOMAIN labs : labs[e] # NaN}} = 0..(Len(groups) - 1)
    /\ \A i \in DOMAIN labs : labs[i] # NaN => groups[idx[i] + 1] = labs[i]
    /\ \A i \in DOMAIN labs : labs[i] = NaN => idx[i] = Len(groups)

\* C21: factorize_ without a fixed output set gives equal non-missing labels
\* equal indices and distinct labels distinct indices; the indices of the
\* non-missing labels are exactly 0..ngroups-1, index i denoting found
\* identity i; every missing label gets the trailing index ngroups, also when
\* all labels are missing.
C21_FactorizeDense ==
    NoFixedCall =>
        /\ ~out.f.err
        /\ out.f.grp_shape = <<Len(out.f.found_groups[1])>>
        /\ DenseIndices(args.by[1], out.f.group_idx, out.f.found_groups[1])

C21_Witness ==
    /\ NoFixedCall
    /\ args.by[1] = <<1, NaN, 0>>
    /\ out.f.group_idx = <<0, 2, 1>>
    /\ out.f.found_groups = <<<<1, 0>>>>

(***************************************************************************)
(* offset_labels(labels) (core.py 72-87) on a 2-D array of group indices:  *)
(* the rows are the slices of the dimension that is not reduced.           *)
(***************************************************************************)
\* the group indices of a slice: the excluded marker -1 and three groups
GroupIndices == (0 - 1)..2

\* labels.max() over the whole array
array_max(labs) == SetMax({labs[s][e] : s \in DOMAIN labs, e \in DOMAIN labs[1]})

\* offset_labels when no slice is offset
no_offset(labs) ==
    [offset |-> labs, ngroups |-> array_max(labs) + 1,
     size |-> Len(labs) * (array_max(labs) + 1)]

\* offset_labels(labels): slice s (0-based) is offset by s * ngroups, and
\* every -1 is put back
offset_labels(labs) ==
    [offset |-> [s \in DOMAIN labs |->
                    [e \in DOMAIN labs[s] |->
                        IF labs[s][e] = 0 - 1 THEN 0 - 1
                        ELSE labs[s][e] + (s - 1) * (array_max(labs) + 1)]],
     ngroups |-> array_max(labs) + 1,
     size |-> Len(labs) * (array_max(labs) + 1)]

InitOffset ==
    /\ \E r \in 1..MaxExtent, n \in 1..MaxExtent :
          args \in [labels : [1..r -> [1..n -> GroupIndices]]]
    /\ out = <<>>
    /\ pc = "call"
    /\ NoReduction

OffsetLabels ==
    /\ pc = "call"
    /\ out' = offset_labels(args.labels)
    /\ pc' = "returned"
    /\ UNCHANGED <<rest, args>>

NextOffset == OffsetLabels

SpecOffset == InitOffset /\ [][NextOffset]_vars

\* the (slice, element) positions of the label array
Positions == (DOMAIN args.labels) \X (DOMAIN args.labels[1])

\* C22: offset_labels maps index g in slice s to s * ngroups + g, so indices
\* of different slices never collide and all lie in
\* [0, num_slices * ngroups), while every -1 stays -1; ngroups counts the
\* groups of the whole label array.
C22_OffsetLabels ==
    pc = "returned" =>
        /\ out.ngroups = array_max(args.labels) + 1
        /\ out.size = Len(args.labels) * out.ngroups
        /\ \A p \in Positions :
              IF args.labels[p[1]][p[2]] = 0 - 1 THEN out.offset[p[1]][p[2]] = 0 - 1
              ELSE /\ out.offset[p[1]][p[2]]
                         = (p[1] - 1) * out.ngroups + args.labels[p[1]][p[2]]
                   /\ out.offset[p[1]][p[2]] \in 0..(out.size - 1)
        /\ \A p, q \in Positions :
              (p[1] # q[1] /\ out.offset[p[1]][p[2]] # 0 - 1)
                  => out.offset[p[1]][p[2]] # out.offset[q[1]][q[2]]

C22_Witness ==
    /\ pc = "returned"
    /\ args.labels = <<<<0, 0 - 1>>, <<2, 0>>>>
    /\ out = [offset |-> <<<<0, 0 - 1>>, <<5, 3>>>>, ngroups |-> 3, size |-> 6]

(***************************************************************************)
(* The partial results of the blockwise layer and of the tree, in Spec.    *)
(***************************************************************************)
\* the blockwise layer has run and no combine step yet: pool[b] is the chunk
\* reduction of block b
ChunkReduced == pc = "tree" /\ Len(pool) = Len(chunks)

\* every label of block b is missing
AllMissing(b) == \A i \in DOMAIN Block(by, chunks, b) : Block(by, chunks, b)[i] = NaN

\* every entry of every intermediate of the partial result x is the fill
\* value of its op
FilledWith(x, ops) ==
    /\ ~x.err
    /\ Len(x.intermediates) = Len(ops)
    /\ \A k \in DOMAIN ops : \A g \in DOMAIN x.intermediates[k] :
          x.intermediates[k][g] = agg_fill_value[ops[k]]

\* C23: when every label of a block is missing, chunk_reduce returns a
\* partial result filled with the descriptor's per-op fill values and does
\* not invoke the aggregation engine for that block.
C23_AllMissingBlockIsSynthesized ==
    ChunkReduced =>
        \A b \in DOMAIN pool :
            AllMissing(b) =>
                /\ FilledWith(pool[b], agg.chunk)
                /\ ~engine_invoked(Block(by, chunks, b))

\* The result res of the aggregate task over the combined partial result
\* comb: with a fill_value the last intermediate is the count, split off
\* before finalize, and a group whose count is 0 holds the fill_value;
\* every other group, and every group when fill_value is None, holds the
\* finalized statistic.
FinalizedFrom(comb, res, counts, stat) ==
    /\ ~res.err
    /\ \A k \in DOMAIN comb.groups :
          LET pos == IF expected_groups = NoGroups THEN k
                     ELSE IndexOf(expected_groups, comb.groups[k])
          IN  pos # 0 =>
                 /\ pos \in DOMAIN res.result
                 /\ res.result[pos] = IF fill_value # None /\ counts[k] = 0 THEN fill_value
                                      ELSE stat[k]

\* the same, for the partial result comb the tree has combined
Finalized(comb, res) ==
    comb.err \/
    FinalizedFrom(comb, res, Last(comb.intermediates),
                  agg_finalize(func, IF fill_value # None THEN Front(comb.intermediates)
                                     ELSE comb.intermediates))

\* C24: _finalize_results on the partitioned path: with a fill_value the
\* last intermediate is taken as the per-group count and is not passed to
\* finalize, and the result is the fill_value exactly for the groups whose
\* count is 0 and the finalized statistic for the others; with fill_value
\* None no intermediate is split off and no group is overwritten.
C24_FinalizeMasksByCount ==
    [][(pc = "tree" /\ pc' = "done") => Finalized(_npg_combine(pool, agg), result')]_vars

C24_Witness ==
    /\ pc = "done"
    /\ func = "sum"
    /\ fill_value = UserFill
    /\ expected_groups = NoGroups
    /\ array = <<NaN, 2>>
    /\ by = <<0, 1>>
    /\ result = [groups |-> <<0, 1>>, result |-> <<UserFill, 2>>, err |-> FALSE]

(***************************************************************************)
(* The split of the group axis for split_out > 1 in groupby_agg (core.py   *)
(* 516-546): the slices the split layer hands to _split_groups.            *)
(***************************************************************************)
\* Most expected groups and largest split_out of the enumerated calls
MaxGroups == 10

MaxSplitOut == 10

\* np.ceil(ngroups / split_out)
ceil_div(ngroups, split_out) == (ngroups + split_out - 1) \div split_out

\* normalize_chunks(chunksize, (ngroups,))[0]: blocks of chunksize and the
\* remainder
normalize_chunks(chunksize, ngroups) ==
    [b \in 1..(ngroups \div chunksize) |-> chunksize]
    \o (IF ngroups % chunksize = 0 THEN <<>> ELSE <<ngroups % chunksize>>)

\* The slices slice(idx[j], idx[j + 1]) for j in range(split_out), as pairs,
\* with idx = np.cumsum((0,) + group_chunks); IndexError when idx is too
\* short (core.py 524-535)
split_slices(idx, split_out) ==
    IF Len(idx) < split_out + 1 THEN [slices |-> <<>>, err |-> "IndexError"]
    ELSE [slices |-> [j \in 1..split_out |-> <<idx[j], idx[j + 1]>>], err |-> ""]

\* the split layer of groupby_agg for ngroups expected groups
split_layer(ngroups, split_out) ==
    split_slices(<<0>> \o cumsum(normalize_chunks(ceil_div(ngroups, split_out), ngroups)),
                 split_out)

InitSplit ==
    /\ args \in [ngroups : 1..MaxGroups, split_out : 2..MaxSplitOut]
    /\ out = <<>>
    /\ pc = "call"
    /\ NoReduction

SplitLayer ==
    /\ pc = "call"
    /\ out' = split_layer(args.ngroups, args.split_out)
    /\ pc' = "returned"
    /\ UNCHANGED <<rest, args>>

NextSplit == SplitLayer

SpecSplit == InitSplit /\ [][NextSplit]_vars

\* the groups (0-based positions on the group axis) of slice j
SliceGroups(j) == {g \in 0..(args.ngroups - 1) : out.slices[j][1] <= g /\ g < out.slices[j][2]}

\* C25: for every number of expected groups n >= 1 and every split_out > 1
\* the group axis is cut into exactly split_out slices [idx[j], idx[j+1])
\* that are pairwise disjoint and together cover 0..n-1, so each expected
\* group is produced by exactly one tree.
C25_SplitOutSlicesPartition ==
    pc = "returned" =>
        /\ out.err = ""
        /\ Len(out.slices) = args.split_out
        /\ \A g \in 0..(args.ngroups - 1) :
              Cardinality({j \in DOMAIN out.slices : g \in SliceGroups(j)}) = 1

\* the index along the unpartitioned axis (0-based) of the element argmax or
\* argmin selects under label g: the first position of the extreme
ArgOf(g) ==
    LET members == SortedSeq({i \in DOMAIN by : by[i] = g})
        xs == Take(array, members)
    IN  members[IndexOf(xs, IF func = "argmax" THEN SetMax(Range(xs))
                            ELSE SetMin(Range(xs)))] - 1

\* a partial result carries, for every group, a value and the index along
\* the unpartitioned axis where that value stands
CarriedTogether(x) ==
    \A k \in DOMAIN x.groups :
        array[x.intermediates[2][k] + 1] = x.intermediates[1][k]

\* C28: for argmin/argmax over block-partitioned input each group's result
\* is the index along the original axis of the selected element and equals
\* the index the unpartitioned computation returns, ties across blocks
\* included; value and index are carried together through every combine
\* step.
C28_ArgReduceOverBlocks ==
    func \in ArgFuncs =>
        /\ pc = "tree" => \A b \in DOMAIN pool : ~pool[b].err /\ CarriedTogether(pool[b])
        /\ pc = "done" =>
              /\ ~result.err
              /\ \A k \in DOMAIN Identities(result) :
                    (\E i \in DOMAIN by : by[i] = Identities(result)[k]) =>
                        /\ result.result[k] = ArgOf(Identities(result)[k])
                        /\ np_result.result[k] = result.result[k]

\* the positions (1-based, along the unpartitioned axis) of block b
BlockPositions(b) ==
    (SumSeq(SubSeq(chunks, 1, b - 1)) + 1)..SumSeq(SubSeq(chunks, 1, b))

\* the identities seen in block b: its labels that are not missing
BlockIdentities(b) == {by[i] : i \in BlockPositions(b)} \ {NaN}

\* op over the values of block b under label g
BlockReduction(b, op, g) ==
    LET members == SortedSeq({i \in BlockPositions(b) : by[i] = g})
    IN  npg_reduce(op, Take(array, members), [k \in DOMAIN members |-> members[k] - 1])

\* a partial result: no exception, and every intermediate as long as groups
WellFormed(x) ==
    /\ ~x.err
    /\ Len(x.intermediates) = Len(agg.chunk)
    /\ \A k \in DOMAIN x.intermediates : Len(x.intermediates[k]) = Len(x.groups)

\* x is the chunk reduction of block b
ChunkReductionOf(x, b) ==
    /\ WellFormed(x)
    /\ x.groups = SortedSeq(BlockIdentities(b))
    /\ \A p \in DOMAIN x.groups, k \in DOMAIN agg.chunk :
          x.intermediates[k][p] = BlockReduction(b, agg.chunk[k], x.groups[p])

\* intermediate k of the siblings that hold group g, in sibling order
SiblingValues(sibs, k, g) ==
    LET holders == SelectSeq([s \in DOMAIN sibs |-> s],
                             LAMBDA s : g \in Range(sibs[s].groups))
    IN  [h \in DOMAIN holders |->
            sibs[holders[h]].intermediates[k][IndexOf(sibs[holders[h]].groups, g)]]

\* combine op k over the siblings' entries for group g; the index of an arg
\* reduction is the one carried beside the selected value
SiblingReduction(sibs, k, g) ==
    IF agg.reduction_type = "argreduce" /\ k = 2
    THEN npg_reduce(agg.combine[2], SiblingValues(sibs, 1, g), SiblingValues(sibs, 2, g))
    ELSE npg_reduce(agg.combine[k], SiblingValues(sibs, k, g), SiblingValues(sibs, k, g))

\* x is the combination of the siblings sibs
CombinationOf(x, sibs) ==
    /\ WellFormed(x)
    /\ x.groups = SortedSeq(UNION {Range(sibs[s].groups) : s \in DOMAIN sibs})
    /\ \A p \in DOMAIN x.groups, k \in DOMAIN agg.combine :
          x.intermediates[k][p] = SiblingReduction(sibs, k, x.groups[p])

MaxCalls == 3

\* dtype=None of a descriptor
NoDtype == "None"

\* the descriptor of a built-in reduction, with the dtype the caller gave it
Descriptor(name, dtype) ==
    [name |-> name,
     chunk |-> agg_chunk(name),
     combine |-> agg_combine(name),
     fill_value |-> [op \in Range(agg_chunk(name)) \cup {name} |-> agg_fill_value[op]],
     dtype |-> dtype,
     finalize |-> "own"]

\* the number of arrays reduction.finalize takes: one for lambda x: x
finalize_arity(reduction_) ==
    IF reduction_.finalize = "identity" THEN 1 ELSE Len(agg_chunk(reduction_.name))

\* core.py 700-705: `if reduction.dtype is None: reduction.dtype =
\* array.dtype`; the fill values of sum and mean hold no dtype sentinel
set_dtype(reduction_, array_dtype) ==
    [reduction_ EXCEPT !.dtype = IF reduction_.dtype = NoDtype THEN array_dtype ELSE @]

\* core.py 736-740: reduction.chunk += ("count",) and what follows
append_count(reduction_) ==
    [reduction_ EXCEPT
        !.chunk = Append(@, "count"),
        !.combine = Append(@, "sum"),
        !.fill_value = [op \in (DOMAIN reduction_.fill_value) \cup {"count", "sum"} |->
                           IF op \in {"count", "sum"} THEN 0
                           ELSE reduction_.fill_value[op]]]

\* The partitioned path computed with the descriptor as it stands:
\* blockwise layer, aggregate, and finalize called with the intermediates
\* left after the count is split off (core.py 333-339)
reduce_dask(reduction_, a, fv) ==
    IF Len(reduction_.chunk) - (IF fv # None THEN 1 ELSE 0)
           # finalize_arity(reduction_)
    THEN RaisedResult
    ELSE _npg_aggregate(
             [b \in 1..Len(a.chunks) |->
                 chunk_block(a.array, a.by, a.chunks, b,
                             Aggregation(reduction_.name, reduction_.chunk,
                                         reduction_.combine, reduction_.finalize))],
             Aggregation(reduction_.name, reduction_.chunk, reduction_.combine,
                         reduction_.finalize),
             NoGroups, fv)

\* groupby_reduce(array, by, func=reduction, fill_value=) with reduction an
\* Aggregation (core.py 697-740): the descriptor as the call leaves it, and
\* the result.  On numpy arrays reduction.fill_value[func] raises KeyError
\* when fill_value is None (core.py 708).
groupby_reduce_with(reduction_, a, is_dask, fv) ==
    IF ~is_dask
    THEN IF fv = None
         THEN [descriptor |-> set_dtype(reduction_, "int64"), res |-> RaisedResult]
         ELSE [descriptor |-> [set_dtype(reduction_, "int64") EXCEPT !.finalize = "identity"],
               res |-> groupby_reduce_numpy(a.array, a.by, reduction_.name, NoGroups,
                                            fv)]
    ELSE IF fv # None
    THEN [descriptor |-> append_count(set_dtype(reduction_, "int64")),
          res |-> reduce_dask(append_count(set_dtype(reduction_, "int64")), a, fv)]
    ELSE [descriptor |-> set_dtype(reduction_, "int64"),
          res |-> reduce_dask(set_dtype(reduction_, "int64"), a, fv)]

InitDescriptor ==
    /\ \E n \in 1..MaxCallLen :
          args \in [array : [1..n -> {1, 2}],
                    by : [1..n -> {0, 1}],
                    chunks : Chunkings(n),
                    descriptor : {Descriptor(name, dtype) :
                                     name \in {"sum", "mean"}, dtype \in {NoDtype, "float64"}}]
    /\ out = [descriptor |-> args.descriptor, calls |-> <<>>]
    /\ pc = "call"
    /\ NoReduction

\* one more call with the same descriptor object, on numpy or on dask arrays
ReuseDescriptor ==
    /\ pc = "call"
    /\ Len(out.calls) < MaxCalls
    /\ \E is_dask \in BOOLEAN, fv \in {None, 0} :
          out' = [descriptor |->
                      groupby_reduce_with(out.descriptor, args, is_dask, fv).descriptor,
                  calls |-> Append(out.calls,
                                   [is_dask |-> is_dask, fill_value |-> fv,
                                    res |-> groupby_reduce_with(out.descriptor, args,
                                                                is_dask, fv).res])]
    /\ UNCHANGED <<rest, args, pc>>

NextDescriptor == ReuseDescriptor

SpecDescriptor == InitDescriptor /\ [][NextDescriptor]_vars

\* two calls with the same inputs
SameInputs(c1, c2) == c1.is_dask = c2.is_dask /\ c1.fill_value = c2.fill_value

\* C30: groupby_reduce leaves a caller-supplied Aggregation descriptor
\* unchanged (chunk ops, combine ops, fill values, dtype, finalize), so any
\* sequence of calls reusing it keeps len(chunk_ops) = len(combine_ops) at
\* the original length and each call returns what the first call with those
\* inputs returned.
C30_DescriptorUnchanged ==
    /\ out.descriptor = args.descriptor
    /\ Len(out.descriptor.chunk) = Len(args.descriptor.chunk)
    /\ Len(out.descriptor.combine) = Len(args.descriptor.chunk)
    /\ \A i, j \in DOMAIN out.calls :
          (i < j /\ SameInputs(out.calls[i], out.calls[j])) =>
              out.calls[j].res = out.calls[i].res

====
